---- MODULE Spec2Model ----
(***************************************************************************)
(* The certificate registry of contracts/ClaudeCodeCertificate.sol: an     *)
(* ERC-721 token (OpenZeppelin 4.x ERC721URIStorage) with AccessControl    *)
(* roles, a participant table, a certificate table and a reverse index.    *)
(*                                                                         *)
(* One action per external function of the deployed contract.  A call that *)
(* reverts leaves the EVM state as it was, so a failing call is a step     *)
(* that changes nothing; which revert it is, is the value of the call's    *)
(* ...Error operator, computed in the order of the code's checks.          *)
(*                                                                         *)
(* issueCertificate calls _safeMint, which, after the token has an owner,  *)
(* calls onERC721Received on a recipient that is a contract.  That call    *)
(* runs the recipient's code inside the mint step, before lines 106-119    *)
(* of issueCertificate run.  The model keeps the calls in progress in     *)
(* `stack`; while it is not empty the only caller is the recipient whose   *)
(* callback is running.                                                    *)
(***************************************************************************)
EXTENDS Integers, Sequences, FiniteSets, TLC

\* ------------------------------------------------------------------ bounds
\* Cap of the token counter (uint256 in the code).
MaxTokens == 2
\* Calls of one write hook that are in flight together.
MaxCalls == 2
\* Cap of the count of automatic connects of one page load.
MaxAttempts == 3

\* ------------------------------------------------------------- input sets
ZeroAddress == "0x0"
Deployer == "deployer"
User == "user"
Contract == "contract"

\* address(0), two externally owned accounts, one contract account.
Addresses == {ZeroAddress, Deployer, User, Contract}
\* msg.sender is never address(0).
Callers == Addresses \ {ZeroAddress}
\* Accounts with code: _safeMint calls onERC721Received on these only.
ContractAccounts == {Contract}

DEFAULT_ADMIN_ROLE == "DEFAULT_ADMIN_ROLE"
ISSUER_ROLE == "ISSUER_ROLE"
Roles == {DEFAULT_ADMIN_ROLE, ISSUER_ROLE}

Names == {"", "Alice"}
TokenURIs == {"", "ipfs://X"}
ContentHashes == {"", "sha256:deadbeef"}
Cohorts == {"2024-Q1"}
\* block.timestamp values; the chain's clock never goes back.
Timestamps == {1, 2}

TokenIds == 1..MaxTokens
\* Ids a caller may pass: 0, every id the counter can reach, and one beyond.
QueryIds == 0..(MaxTokens + 1)
TransferEntries == {"transferFrom", "safeTransferFrom", "safeTransferFromData"}

\* ------------------------------------------------------------ revert names
Ok == "ok"
Unauthorized == "AccessControl: account is missing role"
AlreadyRegistered == "Participant already registered"
InvalidName == "Name cannot be empty"
NotRegistered == "Recipient not registered"
InvalidTokenURI == "Token URI cannot be empty"
InvalidContentHash == "Content hash cannot be empty"
NotFound == "Certificate does not exist"
AlreadyRevoked == "Certificate already revoked"
NonTransferable == "Certificates are non-transferable"
TokenNotFound == "Token does not exist"
MintToZero == "ERC721: mint to the zero address"
NotReceiver == "ERC721: transfer to non ERC721Receiver implementer"
InvalidTokenId == "ERC721: invalid token ID"
NotOwnerOrApproved == "ERC721: caller is not token owner or approved"
IncorrectOwner == "ERC721: transfer from incorrect owner"
TransferToZero == "ERC721: transfer to the zero address"
ApproveToCaller == "ERC721: approve to caller"
RenounceNotSelf == "AccessControl: can only renounce roles for self"
InvalidArgument == {InvalidName, InvalidTokenURI, InvalidContentHash}
\* The two messages for an unknown token id (lines 129 and 181).
UnknownTokenId == {NotFound, TokenNotFound}

\* ------------------------------------------------------------------- state
VARIABLES
    roles,                    \* AccessControl._roles: role -> set of members
    participants,             \* mapping(address => Participant)
    tokenIdCounter,           \* Counters.Counter _tokenIdCounter
    owners,                   \* ERC721._owners: tokenId -> address, 0 if none
    operatorApprovals,        \* ERC721._operatorApprovals: <<owner, operator>>
    tokenURIs,                \* ERC721URIStorage._tokenURIs
    certificates,             \* mapping(uint256 => Certificate)
    participantCertificates,  \* mapping(address => uint256[])
    log,                      \* the events emitted, in order
    now,                      \* block.timestamp of the current transaction
    stack,                    \* issueCertificate calls inside _safeMint
    returned,                 \* history: the arguments of the call that returned t
    allocated                 \* history: the ids given to the calls, in call order

\* The browser client and the wallet extension it talks to.
VARIABLES
    walletChainId,            \* the wallet: the chain it is on (eth_chainId)
    walletChains,             \* the wallet: the chains it has been given
    walletAccount,            \* the wallet: the account it hands out
    state,                    \* WalletContext: WalletState
    storage,                  \* localStorage: the value under STORAGE_KEY
    afterDisconnect,          \* history: connect was not called since disconnect
    availableWallets,         \* WalletContext: the array of the latest discovery
    autoPc,                   \* the auto-reconnect effect and its wrapper
    connectPc,                \* connect(): the wallet request it awaits
    txState,                  \* useWriteCertificate: TransactionState
    writePc,                  \* the write hook's call: awaited promise, value returned
    submitted,                \* history: the transactions handed to the wallet
    form,                     \* IssueCertificate: the component's state
    uploadPc,                 \* handleUpload: the file in flight, the awaited promise
    issuerPc,                 \* useIsIssuer: isIssuer, isLoading, queries in flight
    verifyPc,                 \* VerifyCertificate: the component's state
    hookPc                    \* one useWriteCertificate instance called through its API

chainVars == <<roles, participants, tokenIdCounter, owners, operatorApprovals, tokenURIs,
               certificates, participantCertificates, log, now, stack, returned,
               allocated>>

walletVars == <<walletChainId, walletChains, state, connectPc, txState, writePc,
                submitted>>

uploadVars == <<form, uploadPc>>

sessionVars == <<walletAccount, storage, afterDisconnect, availableWallets, autoPc>>

viewVars == <<issuerPc, verifyPc, hookPc>>

clientVars == <<walletVars, uploadVars, sessionVars, viewVars>>

vars == <<roles, participants, tokenIdCounter, owners, operatorApprovals, tokenURIs,
          certificates, participantCertificates, log, now, stack, returned, allocated,
          walletChainId, walletChains, state, connectPc, txState, writePc, submitted,
          form, uploadPc, walletAccount, storage, afterDisconnect, availableWallets,
          autoPc, issuerPc, verifyPc, hookPc>>

NoParticipant == [name |-> "", registeredAt |-> 0, isRegistered |-> FALSE]
NoCertificate == [recipient |-> ZeroAddress, contentHash |-> "", cohort |-> "",
                  issuedAt |-> 0, isRevoked |-> FALSE]
NoCall == [recipient |-> ZeroAddress, tokenURI |-> "", contentHash |-> "",
           cohort |-> "", issuedAt |-> 0]

\* ------------------------------------------------- the client's values
\* The network the client expects: its id, and the id as the wallet is asked
\* for it (0x190F1B46, digit by digit).
PASEO_ASSET_HUB ==
    [chainId |-> 420420422, chainIdHex |-> <<1, 9, 0, 15, 1, 11, 4, 6>>]

\* The networks a wallet may be on: the expected one and Ethereum mainnet.
ChainIds == {PASEO_ASSET_HUB.chainId, 1}

RECURSIVE toHex(_)
\* The wallet's answer to eth_chainId: the id in base 16.
toHex(n) == IF n < 16 THEN <<n>> ELSE Append(toHex(n \div 16), n % 16)

RECURSIVE parseInt(_)
\* parseInt(chainIdHex, 16)
parseInt(hex) ==
    IF hex = <<>> THEN 0
    ELSE 16 * parseInt(SubSeq(hex, 1, Len(hex) - 1)) + hex[Len(hex)]

\* JavaScript values: null, an Error with its message, and the errors the wallet
\* and the ledger reject a request with.
Null == [instanceofError |-> FALSE, message |-> "null"]
Error(message) == [instanceofError |-> TRUE, message |-> message]
WalletNotConnected == Error("Wallet not connected")
TransactionFailed == Error("Transaction failed")
FailedToConnect == Error("Failed to connect")
UserRejected == Error("user rejected action")
ExecutionReverted == Error("execution reverted")
ProviderNotFound == Error("EVM provider not found")
NoAccounts == Error("No accounts found")
\* What a write call can be rejected with before and after its submission.
SendErrors == {UserRejected, ExecutionReverted}
WaitErrors == {ExecutionReverted}

TxHashes == {"0xaa"}
Operations == {"registerParticipant", "issueCertificate", "revokeCertificate"}

initialTxState ==
    [isPending |-> FALSE, isConfirming |-> FALSE, isSuccess |-> FALSE,
     error |-> Null, hash |-> "null"]

\* The one extension the pages below are used with, and the storage key's states.
Extension == "talisman"
NoItem == "null"
NoAddress == "null"
NoWallet == "null"
SignerUnavailable == Error("unknown account")
\* A wallet may reject a request with an object that is no Error instance.
RejectedObject == [instanceofError |-> FALSE, message |-> "User rejected the request"]

Disconnected ==
    [wallet |-> NoWallet, address |-> NoAddress, signer |-> FALSE,
     isConnecting |-> FALSE, isReconnecting |-> FALSE, error |-> Null]

\* useWallet: connected means an address and a wallet.
isConnected == state.address # NoAddress /\ state.wallet # NoWallet

\* discoverWallets runs at mount and once more after 500 ms.
Discoveries == 2
\* The auto-reconnect effect has not run; no wrapper awaits a connect.
NoAuto == [seen |-> <<"mount">>, wrapper |-> FALSE, attempts |-> 0]
\* useIsIssuer before its effect has run.
NoIssuerQuery == [isIssuer |-> FALSE, isLoading |-> FALSE, seen |-> "mount", queries |-> {}]
\* The calls of one write hook that may be in flight together.
CallSlots == 1..MaxCalls
NoHook == [k \in CallSlots |-> [op |-> "none", await |-> "none"]]
\* VerifyCertificate before a search.
NoVerify == [tokenId |-> 0, isLoading |-> FALSE, certificate |-> <<>>, error |-> "null"]

NoWrite == [op |-> "none", await |-> "none", result |-> "none", raised |-> Null]

\* The files the issuer can select, by their bytes; FileNull is no file.
Files == {<<1, 2>>, <<3>>}
FileNull == <<>>

\* crypto.subtle.digest("SHA-256", buffer): the digest's bytes (two of them here).
SHA256(buffer) == IF buffer = <<1, 2>> THEN <<10, 255>> ELSE <<171, 4>>

\* The address the store gives to the bytes it is sent.
IpfsHash(buffer) == IF buffer = <<1, 2>> THEN "QmOne" ELSE "QmTwo"

RECURSIVE hashHex(_)
\* hashArray.map((b) => b.toString(16).padStart(2, "0")).join("")
hashHex(hashArray) ==
    IF hashArray = <<>> THEN <<>>
    ELSE <<hashArray[1] \div 16, hashArray[1] % 16>> \o hashHex(Tail(hashArray))

\* computeSHA256(file): `sha256:${hashHex}`
computeSHA256(file) == [scheme |-> "sha256", hex |-> hashHex(SHA256(file))]

NoHash == [scheme |-> "", hex |-> <<>>]
NoURI == [scheme |-> "", cid |-> ""]

PinataJwts == {"", "jwt"}
FailedToUpload == "Failed to upload to IPFS"
ReadFailed == "The file could not be read"
NoUpload == [file |-> FileNull, await |-> "none", sent |-> FALSE, cid |-> "",
             hash |-> NoHash]

EmptyForm ==
    [selectedFile |-> FileNull, pinataJwt |-> "", isUploading |-> FALSE,
     uploadError |-> "null", tokenURI |-> NoURI, contentHash |-> NoHash]

\* No page is open: the wallet sits on the expected network, nothing is in flight.
ClientIdle ==
    /\ walletChainId = PASEO_ASSET_HUB.chainId
    /\ walletChains = {PASEO_ASSET_HUB.chainId}
    /\ state = Disconnected
    /\ connectPc = "idle"
    /\ txState = initialTxState
    /\ writePc = NoWrite
    /\ submitted = {}
    /\ form = EmptyForm
    /\ uploadPc = NoUpload
    /\ walletAccount = Deployer
    /\ storage = NoItem
    /\ afterDisconnect = TRUE
    /\ availableWallets = 0
    /\ autoPc = NoAuto
    /\ issuerPc = NoIssuerQuery
    /\ verifyPc = NoVerify
    /\ hookPc = NoHook

\* A constructor that grants the deployer the admin role only.
DeployedAdminOnly ==
    /\ roles = [r \in Roles |-> IF r = DEFAULT_ADMIN_ROLE THEN {Deployer} ELSE {}]
    /\ participants = [a \in Addresses |-> NoParticipant]
    /\ tokenIdCounter = 0
    /\ owners = [t \in TokenIds |-> ZeroAddress]
    /\ operatorApprovals = {}
    /\ tokenURIs = [t \in TokenIds |-> ""]
    /\ certificates = [t \in TokenIds |-> NoCertificate]
    /\ participantCertificates = [a \in Addresses |-> <<>>]
    /\ log = <<>>
    /\ now = 1
    /\ stack = <<>>
    /\ returned = [t \in TokenIds |-> NoCall]
    /\ allocated = <<>>

\* ------------------------------------------------------------ construction
\* The registry right after its constructor.
Deployed ==
    /\ roles = [r \in Roles |-> {Deployer}]
    /\ participants = [a \in Addresses |-> NoParticipant]
    /\ tokenIdCounter = 0
    /\ owners = [t \in TokenIds |-> ZeroAddress]
    /\ operatorApprovals = {}
    /\ tokenURIs = [t \in TokenIds |-> ""]
    /\ certificates = [t \in TokenIds |-> NoCertificate]
    /\ participantCertificates = [a \in Addresses |-> <<>>]
    /\ log = <<>>
    /\ now = 1
    /\ stack = <<>>
    /\ returned = [t \in TokenIds |-> NoCall]
    /\ allocated = <<>>

Init == Deployed /\ ClientIdle

\* ----------------------------------------------------------------- helpers
hasRole(role, account) == account \in roles[role]

ownerOf(tokenId) == IF tokenId \in TokenIds THEN owners[tokenId] ELSE ZeroAddress

_exists(tokenId) == ownerOf(tokenId) # ZeroAddress

Cert(tokenId) == IF tokenId \in TokenIds THEN certificates[tokenId] ELSE NoCertificate

\* The ids whose issueCertificate call is still inside _safeMint.
InFlight == {stack[i].tokenId : i \in DOMAIN stack}

\* msg.sender of the next call: anyone between transactions, the recipient
\* whose onERC721Received is running otherwise.
ActiveCallers == IF stack = <<>> THEN Callers ELSE {stack[Len(stack)].recipient}


\* --------------------------------------------------------- role management
\* grantRole and revokeRole without their onlyRole modifier.
RoleAdminErrorUngated(caller) == Ok

\* AccessControl.grantRole / revokeRole: onlyRole(getRoleAdmin(role)); the
\* admin of every role is DEFAULT_ADMIN_ROLE (no _setRoleAdmin in the contract).
RoleAdminError(caller) ==
    IF hasRole(DEFAULT_ADMIN_ROLE, caller) THEN Ok ELSE Unauthorized

GrantRole(caller, role, account) ==
    /\ caller \in ActiveCallers
    /\ IF RoleAdminError(caller) = Ok
       THEN roles' = [roles EXCEPT ![role] = @ \cup {account}]
       ELSE roles' = roles
    /\ UNCHANGED <<participants, tokenIdCounter, owners, operatorApprovals, tokenURIs,
                   certificates, participantCertificates, log, now, stack, returned,
                   allocated>>
    /\ UNCHANGED clientVars

RevokeRole(caller, role, account) ==
    /\ caller \in ActiveCallers
    /\ IF RoleAdminError(caller) = Ok
       THEN roles' = [roles EXCEPT ![role] = @ \ {account}]
       ELSE roles' = roles
    /\ UNCHANGED <<participants, tokenIdCounter, owners, operatorApprovals, tokenURIs,
                   certificates, participantCertificates, log, now, stack, returned,
                   allocated>>
    /\ UNCHANGED clientVars

\* AccessControl.renounceRole: any caller, for its own account only.
RenounceError(caller, account) ==
    IF account = caller THEN Ok ELSE RenounceNotSelf

RenounceRole(caller, role, account) ==
    /\ caller \in ActiveCallers
    /\ IF RenounceError(caller, account) = Ok
       THEN roles' = [roles EXCEPT ![role] = @ \ {account}]
       ELSE roles' = roles
    /\ UNCHANGED <<participants, tokenIdCounter, owners, operatorApprovals, tokenURIs,
                   certificates, participantCertificates, log, now, stack, returned,
                   allocated>>
    /\ UNCHANGED clientVars

\* ------------------------------------------------------ registerParticipant
\* registerParticipant without its onlyRole modifier.
RegisterErrorUngated(caller, participant, name) ==
    IF participants[participant].isRegistered THEN AlreadyRegistered
    ELSE IF name = "" THEN InvalidName
    ELSE Ok

\* registerParticipant without the require of line 72.
RegisterErrorRepeatable(caller, participant, name) ==
    IF ~hasRole(ISSUER_ROLE, caller) THEN Unauthorized
    ELSE IF name = "" THEN InvalidName
    ELSE Ok

\* registerParticipant without the require of line 73.
RegisterErrorAnyName(caller, participant, name) ==
    IF ~hasRole(ISSUER_ROLE, caller) THEN Unauthorized
    ELSE IF participants[participant].isRegistered THEN AlreadyRegistered
    ELSE Ok

\* Lines 71-73: the modifier, then the two requires in their order.
RegisterError(caller, participant, name) ==
    IF ~hasRole(ISSUER_ROLE, caller) THEN Unauthorized
    ELSE IF participants[participant].isRegistered THEN AlreadyRegistered
    ELSE IF name = "" THEN InvalidName
    ELSE Ok

ParticipantRegistered(participant, name, timestamp) ==
    [type |-> "ParticipantRegistered", participant |-> participant,
     name |-> name, timestamp |-> timestamp]

RegisterParticipant(caller, participant, name) ==
    /\ caller \in ActiveCallers
    /\ IF RegisterError(caller, participant, name) = Ok
       THEN /\ participants' = [participants EXCEPT ![participant] =
                   [name |-> name, registeredAt |-> now, isRegistered |-> TRUE]]
            /\ log' = Append(log, ParticipantRegistered(participant, name, now))
       ELSE UNCHANGED <<participants, log>>
    /\ UNCHANGED <<roles, tokenIdCounter, owners, operatorApprovals, tokenURIs,
                   certificates, participantCertificates, now, stack, returned,
                   allocated>>
    /\ UNCHANGED clientVars

\* --------------------------------------------------------- issueCertificate
\* ERC721._mint(to, tokenId), reached with from = address(0).
MintError(to) ==
    IF to = ZeroAddress THEN MintToZero ELSE Ok

\* A counter that is read without being moved past its first value.
NextTokenIdReused == IF tokenIdCounter = 0 THEN 1 ELSE tokenIdCounter

\* Lines 102-103: increment(), then current().
NextTokenId == tokenIdCounter + 1

\* A hook that forgets to let the mint through.
beforeTokenTransferBlocksMint(from, to, tokenId) == NonTransferable

\* The hook with its test on the wrong address: it stops burns, not transfers.
beforeTokenTransferTestsTo(from, to, tokenId) ==
    IF to = ZeroAddress THEN NonTransferable ELSE Ok

\* Lines 188-198: the hook every mint and transfer goes through.
beforeTokenTransfer(from, to, tokenId) ==
    IF from = ZeroAddress THEN Ok ELSE NonTransferable

\* issueCertificate without the require of line 100.
IssueErrorAnyHash(caller, recipient, tokenURI, contentHash, accepts) ==
    IF ~hasRole(ISSUER_ROLE, caller) THEN Unauthorized
    ELSE IF ~participants[recipient].isRegistered THEN NotRegistered
    ELSE IF tokenURI = "" THEN InvalidTokenURI
    ELSE IF recipient = ZeroAddress THEN MintToZero
    ELSE IF recipient \in ContractAccounts /\ ~accepts THEN NotReceiver
    ELSE Ok

\* issueCertificate without the require of line 98.
IssueErrorUnregistered(caller, recipient, tokenURI, contentHash, accepts) ==
    IF ~hasRole(ISSUER_ROLE, caller) THEN Unauthorized
    ELSE IF tokenURI = "" THEN InvalidTokenURI
    ELSE IF contentHash = "" THEN InvalidContentHash
    ELSE IF recipient = ZeroAddress THEN MintToZero
    ELSE IF recipient \in ContractAccounts /\ ~accepts THEN NotReceiver
    ELSE Ok

\* `accepts`: whether the recipient's onERC721Received returns the magic
\* value; an account without code is not called.
IssueError(caller, recipient, tokenURI, contentHash, accepts) ==
    IF ~hasRole(ISSUER_ROLE, caller) THEN Unauthorized
    ELSE IF ~participants[recipient].isRegistered THEN NotRegistered
    ELSE IF tokenURI = "" THEN InvalidTokenURI
    ELSE IF contentHash = "" THEN InvalidContentHash
    ELSE IF MintError(recipient) # Ok THEN MintError(recipient)
    ELSE IF beforeTokenTransfer(ZeroAddress, recipient, NextTokenId) # Ok
         THEN beforeTokenTransfer(ZeroAddress, recipient, NextTokenId)
    ELSE IF recipient \in ContractAccounts /\ ~accepts THEN NotReceiver
    ELSE Ok

CertificateIssued(tokenId, recipient, cohort, contentHash, timestamp) ==
    [type |-> "CertificateIssued", tokenId |-> tokenId, recipient |-> recipient,
     cohort |-> cohort, contentHash |-> contentHash, timestamp |-> timestamp]

\* A Locked event that names the counter's value instead of the id minted.
LockedCurrent(tokenId) == [type |-> "Locked", tokenId |-> tokenIdCounter]

Locked(tokenId) == [type |-> "Locked", tokenId |-> tokenId]

\* Lines 108-114: the Certificate written for a call.
\* The record is written without the time of issuance.
NewCertificateUnstamped(f) ==
    [recipient |-> f.recipient, contentHash |-> f.contentHash, cohort |-> f.cohort,
     issuedAt |-> 0, isRevoked |-> FALSE]

NewCertificate(f) ==
    [recipient |-> f.recipient, contentHash |-> f.contentHash, cohort |-> f.cohort,
     issuedAt |-> now, isRevoked |-> FALSE]

\* Lines 102-105 up to the receiver check: the counter and ERC721._mint.
Minted(f) ==
    /\ tokenIdCounter' = f.tokenId
    /\ owners' = [owners EXCEPT ![f.tokenId] = f.recipient]
    /\ allocated' = Append(allocated, f.tokenId)

\* An issuance that puts the new id at the front of the recipient's list.
CompletedPrepends(f) ==
    /\ tokenURIs' = [tokenURIs EXCEPT ![f.tokenId] = f.tokenURI]
    /\ certificates' = [certificates EXCEPT ![f.tokenId] = NewCertificate(f)]
    /\ participantCertificates' =
           [participantCertificates EXCEPT ![f.recipient] = <<f.tokenId>> \o @]
    /\ log' = log \o <<CertificateIssued(f.tokenId, f.recipient, f.cohort,
                                         f.contentHash, now),
                       Locked(f.tokenId)>>
    /\ returned' = [returned EXCEPT ![f.tokenId] =
           [recipient |-> f.recipient, tokenURI |-> f.tokenURI,
            contentHash |-> f.contentHash, cohort |-> f.cohort, issuedAt |-> now]]

\* Lines 106-121: what issueCertificate does once _safeMint has returned.
Completed(f) ==
    /\ tokenURIs' = [tokenURIs EXCEPT ![f.tokenId] = f.tokenURI]
    /\ certificates' = [certificates EXCEPT ![f.tokenId] = NewCertificate(f)]
    /\ participantCertificates' =
           [participantCertificates EXCEPT ![f.recipient] = Append(@, f.tokenId)]
    /\ log' = log \o <<CertificateIssued(f.tokenId, f.recipient, f.cohort,
                                         f.contentHash, now),
                       Locked(f.tokenId)>>
    /\ returned' = [returned EXCEPT ![f.tokenId] =
           [recipient |-> f.recipient, tokenURI |-> f.tokenURI,
            contentHash |-> f.contentHash, cohort |-> f.cohort, issuedAt |-> now]]

IssueCertificate(caller, recipient, tokenURI, contentHash, cohort, accepts) ==
    /\ caller \in ActiveCallers
    /\ IF IssueError(caller, recipient, tokenURI, contentHash, accepts) # Ok
       THEN UNCHANGED vars
       ELSE /\ tokenIdCounter < MaxTokens
            /\ LET f == [tokenId |-> NextTokenId, recipient |-> recipient,
                         tokenURI |-> tokenURI, contentHash |-> contentHash,
                         cohort |-> cohort]
               IN  IF recipient \in ContractAccounts
                   THEN \* _safeMint is now inside onERC721Received
                        /\ Minted(f)
                        /\ stack' = Append(stack, f)
                        /\ UNCHANGED <<roles, participants, operatorApprovals, tokenURIs,
                                       certificates, participantCertificates, log,
                                       now, returned>>
                   ELSE /\ Minted(f)
                        /\ Completed(f)
                        /\ UNCHANGED <<roles, participants, operatorApprovals, now, stack>>
    /\ UNCHANGED clientVars

\* onERC721Received returns the magic value: the innermost issueCertificate
\* call goes on from line 106.
ReceiverReturns ==
    /\ stack # <<>>
    /\ Completed(stack[Len(stack)])
    /\ stack' = SubSeq(stack, 1, Len(stack) - 1)
    /\ UNCHANGED <<roles, participants, tokenIdCounter, owners, operatorApprovals, now,
                   allocated>>
    /\ UNCHANGED clientVars

\* -------------------------------------------------------- revokeCertificate
\* revokeCertificate without the require of line 129.
RevokeErrorUnchecked(caller, tokenId) ==
    IF ~hasRole(ISSUER_ROLE, caller) THEN Unauthorized
    ELSE IF Cert(tokenId).isRevoked THEN AlreadyRevoked
    ELSE Ok

\* Lines 128-130: the modifier, then the two requires in their order.
RevokeError(caller, tokenId) ==
    IF ~hasRole(ISSUER_ROLE, caller) THEN Unauthorized
    ELSE IF ~_exists(tokenId) THEN NotFound
    ELSE IF Cert(tokenId).isRevoked THEN AlreadyRevoked
    ELSE Ok

CertificateRevoked(tokenId, timestamp) ==
    [type |-> "CertificateRevoked", tokenId |-> tokenId, timestamp |-> timestamp]

\* A revocation that also stamps the record with the time of the revocation.
RevokedRestamped(cert) == [cert EXCEPT !.isRevoked = TRUE, !.issuedAt = now]

\* Line 132.
Revoked(cert) == [cert EXCEPT !.isRevoked = TRUE]

\* A revocation that flips the flag instead of setting it.
RevokeCertificateToggles(caller, tokenId) ==
    /\ caller \in ActiveCallers
    /\ IF hasRole(ISSUER_ROLE, caller) /\ _exists(tokenId)
       THEN /\ certificates' = [certificates EXCEPT ![tokenId].isRevoked = ~@]
            /\ log' = Append(log, CertificateRevoked(tokenId, now))
       ELSE UNCHANGED <<certificates, log>>
    /\ UNCHANGED <<roles, participants, tokenIdCounter, owners, operatorApprovals,
                   tokenURIs, participantCertificates, now, stack, returned,
                   allocated>>
    /\ UNCHANGED clientVars

RevokeCertificate(caller, tokenId) ==
    /\ caller \in ActiveCallers
    /\ IF RevokeError(caller, tokenId) = Ok
       THEN /\ certificates' = [certificates EXCEPT ![tokenId] = Revoked(@)]
            /\ log' = Append(log, CertificateRevoked(tokenId, now))
       ELSE UNCHANGED <<certificates, log>>
    /\ UNCHANGED <<roles, participants, tokenIdCounter, owners, operatorApprovals,
                   tokenURIs, participantCertificates, now, stack, returned,
                   allocated>>
    /\ UNCHANGED clientVars

\* ---------------------------------------------------------------- transfers
\* ERC721.setApprovalForAll(operator, approved), by `caller` for its own tokens.
ApprovalError(caller, operator) ==
    IF caller = operator THEN ApproveToCaller ELSE Ok

SetApprovalForAll(caller, operator, approved) ==
    /\ caller \in ActiveCallers
    /\ IF ApprovalError(caller, operator) = Ok
       THEN operatorApprovals' = IF approved
                                 THEN operatorApprovals \cup {<<caller, operator>>}
                                 ELSE operatorApprovals \ {<<caller, operator>>}
       ELSE operatorApprovals' = operatorApprovals
    /\ UNCHANGED <<roles, participants, tokenIdCounter, owners, tokenURIs,
                   certificates, participantCertificates, log, now, stack, returned,
                   allocated>>
    /\ UNCHANGED clientVars

isApprovedForAll(owner, operator) == <<owner, operator>> \in operatorApprovals

\* ERC721._isApprovedOrOwner, for a token that exists.  approve(to, tokenId)
\* is not among the calls modelled, so getApproved(tokenId) is address(0).
isApprovedOrOwner(spender, tokenId) ==
    spender = ownerOf(tokenId) \/ isApprovedForAll(ownerOf(tokenId), spender)

\* transferFrom and both safeTransferFrom: the caller check, then
\* ERC721._transfer, whose checks come before the hook.
TransferError(entry, caller, from, to, tokenId) ==
    IF ~_exists(tokenId) THEN InvalidTokenId
    ELSE IF ~isApprovedOrOwner(caller, tokenId) THEN NotOwnerOrApproved
    ELSE IF ownerOf(tokenId) # from THEN IncorrectOwner
    ELSE IF to = ZeroAddress THEN TransferToZero
    ELSE beforeTokenTransfer(from, to, tokenId)

Transfer(entry, caller, from, to, tokenId) ==
    /\ caller \in ActiveCallers
    /\ IF TransferError(entry, caller, from, to, tokenId) = Ok
       THEN owners' = [owners EXCEPT ![tokenId] = to]
       ELSE owners' = owners
    /\ UNCHANGED <<roles, participants, operatorApprovals, tokenIdCounter, tokenURIs, certificates,
                   participantCertificates, log, now, stack, returned,
                   allocated>>
    /\ UNCHANGED clientVars

\* -------------------------------------------------------------------- views
\* verifyCertificate without the test of line 153.
verifyCertificateUnchecked(tokenId) ==
    LET cert == Cert(tokenId)
    IN  <<~cert.isRevoked, cert.recipient, cert.contentHash, cert.cohort,
          cert.issuedAt>>

\* Lines 146-163.
verifyCertificate(tokenId) ==
    IF ~_exists(tokenId)
    THEN <<FALSE, ZeroAddress, "", "", 0>>
    ELSE LET cert == Cert(tokenId)
         IN  <<~cert.isRevoked, cert.recipient, cert.contentHash, cert.cohort,
               cert.issuedAt>>

getParticipantCertificates(participant) == participantCertificates[participant]

\* A locked() that reports a revoked certificate as unlocked.
lockedUntilRevoked(tokenId) ==
    IF ~_exists(tokenId) THEN TokenNotFound
    ELSE IF Cert(tokenId).isRevoked THEN "false" ELSE "true"

\* "revert" stands for require(_exists(tokenId), "Token does not exist").
locked(tokenId) == IF _exists(tokenId) THEN "true" ELSE TokenNotFound

\* Calls of the views: external view functions, which read the storage and
\* write nothing, for any caller.
VerifyCertificateCall(caller, tokenId) ==
    /\ caller \in ActiveCallers
    /\ verifyCertificate(tokenId) \in BOOLEAN \X Addresses \X STRING \X STRING \X Nat
    /\ UNCHANGED vars

GetParticipantCertificatesCall(caller, participant) ==
    /\ caller \in ActiveCallers
    /\ getParticipantCertificates(participant) \in Seq(TokenIds)
    /\ UNCHANGED vars

HasRoleCall(caller, role, account) ==
    /\ caller \in ActiveCallers
    /\ hasRole(role, account) \in BOOLEAN
    /\ UNCHANGED vars

\* A locked() that emits the Locked event each time it is asked.
LockedCallEmits(caller, tokenId) ==
    /\ caller \in ActiveCallers
    /\ IF locked(tokenId) = "true"
       THEN log' = Append(log, Locked(tokenId))
       ELSE log' = log
    /\ UNCHANGED <<roles, participants, tokenIdCounter, owners, operatorApprovals,
                   tokenURIs, certificates, participantCertificates, now, stack,
                   returned, allocated>>
    /\ UNCHANGED clientVars

LockedCall(caller, tokenId) ==
    /\ caller \in ActiveCallers
    /\ locked(tokenId) \in {"true", TokenNotFound}
    /\ UNCHANGED vars

\* ------------------------------------------------------------------- blocks
\* A later block: between transactions only.
NextBlock(timestamp) ==
    /\ stack = <<>>
    /\ timestamp > now
    /\ now' = timestamp
    /\ UNCHANGED <<roles, participants, tokenIdCounter, owners, operatorApprovals,
                   tokenURIs, certificates, participantCertificates, log, stack,
                   returned,
                   allocated>>
    /\ UNCHANGED clientVars

\* The arguments the calls are tried with.
GrantArgs == {<<ISSUER_ROLE, Contract>>}
RevokeArgs == {<<ISSUER_ROLE, Contract>>}
RenounceArgs == {<<ISSUER_ROLE, Contract>>}
RegisterTargets == {User, Contract}
IssueRecipients == {User, Contract}
\* setApprovalForAll: the owner User names (or drops) the operator Deployer.
Approvers == {User}
Operators == {Deployer}
TransferTos == {Deployer}
\* Only a recipient with code is asked whether it accepts the token.
Answers(recipient) == IF recipient \in ContractAccounts THEN BOOLEAN ELSE {TRUE}

Calls ==
    \/ \E c \in Callers, ra \in GrantArgs : GrantRole(c, ra[1], ra[2])
    \/ \E c \in Callers, ra \in RevokeArgs : RevokeRole(c, ra[1], ra[2])
    \/ \E c \in Callers, ra \in RenounceArgs : RenounceRole(c, ra[1], ra[2])
    \/ \E c \in Callers, p \in RegisterTargets, n \in Names :
          RegisterParticipant(c, p, n)
    \/ \E c \in Callers, p \in IssueRecipients, u \in TokenURIs, h \in ContentHashes,
          k \in Cohorts :
          \E accepts \in Answers(p) : IssueCertificate(c, p, u, h, k, accepts)
    \/ ReceiverReturns
    \/ \E c \in Callers, t \in QueryIds : RevokeCertificate(c, t)
    \/ \E e \in TransferEntries, c \in Callers, to \in TransferTos, t \in TokenIds :
          Transfer(e, c, ownerOf(t), to, t)

Next == Calls

Spec == Init /\ [][Next]_vars

\* The same calls, spread over blocks with different timestamps.
ClockNext ==
    \/ Calls
    \/ \E ts \in Timestamps : NextBlock(ts)

SpecClock == Init /\ [][ClockNext]_vars

\* The same calls, and those that name address(0) as participant or recipient.
ZeroNext ==
    \/ Calls
    \/ \E c \in Callers, n \in Names : RegisterParticipant(c, ZeroAddress, n)
    \/ \E c \in Callers, u \in TokenURIs, h \in ContentHashes, k \in Cohorts :
          IssueCertificate(c, ZeroAddress, u, h, k, TRUE)

SpecZero == Init /\ [][ZeroNext]_vars

\* The same calls, and issuances with an empty cohort.
AnyCohorts == Cohorts \cup {""}

CohortNext ==
    \/ Calls
    \/ \E c \in Callers, p \in IssueRecipients, u \in TokenURIs, h \in ContentHashes :
          \E accepts \in Answers(p) : IssueCertificate(c, p, u, h, "", accepts)

SpecCohort == Init /\ [][CohortNext]_vars

\* The same calls, and calls of the views.
ViewNext ==
    \/ Calls
    \/ \E c \in Callers, t \in QueryIds : VerifyCertificateCall(c, t)
    \/ \E c \in Callers, a \in Addresses : GetParticipantCertificatesCall(c, a)
    \/ \E c \in Callers, r \in Roles, a \in Addresses : HasRoleCall(c, r, a)
    \/ \E c \in Callers, t \in QueryIds : LockedCall(c, t)

SpecViews == Init /\ [][ViewNext]_vars

\* The same calls, with owners that name and drop an operator.
ApprovalNext ==
    \/ Calls
    \/ \E c \in Approvers, o \in Operators, b \in BOOLEAN : SetApprovalForAll(c, o, b)

SpecApprovals == Init /\ [][ApprovalNext]_vars


\* The same calls, and those by which an admin gives up or loses the admin role.
AdminNext ==
    \/ Calls
    \/ \E c \in Callers : RenounceRole(c, DEFAULT_ADMIN_ROLE, c)
    \/ \E c \in Callers : RevokeRole(c, DEFAULT_ADMIN_ROLE, Deployer)

SpecAdmin == Init /\ [][AdminNext]_vars

\* ========================================================== browser client
\* ---------------------------------------------------------------- the wallet
\* The user picks another network in the wallet extension.
WalletChainChanged(chainId) ==
    /\ chainId \in walletChains
    /\ chainId # walletChainId
    /\ walletChainId' = chainId
    /\ UNCHANGED <<walletChains, state, connectPc, txState, writePc, submitted>>
    /\ UNCHANGED <<chainVars, uploadVars, sessionVars, viewVars>>

\* The accounts of the wallet, and the user choosing one of them in the
\* extension; the page does not listen to the change.
WalletAccounts == {Deployer, User}

WalletAccountChanged(account) ==
    /\ walletAccount' = account
    /\ UNCHANGED <<storage, afterDisconnect, availableWallets, autoPc>>
    /\ UNCHANGED <<chainVars, walletVars, uploadVars, viewVars>>

\* ------------------------------------------------------------------ connect
\* A catch that drops the connection there was.
ConnectFailedDropping(err) ==
    /\ state' = [Disconnected EXCEPT !.error = IF err.instanceofError THEN err
                                               ELSE FailedToConnect]
    /\ connectPc' = "idle"

\* connect's catch: the error is kept, the signer is the one there was.
ConnectFailed(err) ==
    /\ state' = [state EXCEPT !.isConnecting = FALSE,
                              !.error = IF err.instanceofError THEN err
                                        ELSE FailedToConnect]
    /\ connectPc' = "idle"

\* connect, up to its first request to the wallet.
Connect(found) ==
    /\ connectPc = "idle"
    /\ IF found
       THEN /\ state' = [state EXCEPT !.isConnecting = TRUE, !.error = Null]
            /\ connectPc' = "eth_requestAccounts"
       ELSE ConnectFailed(ProviderNotFound)
    /\ afterDisconnect' = FALSE
    /\ UNCHANGED <<walletChainId, walletChains, txState, writePc, submitted>>
    /\ UNCHANGED <<walletAccount, storage, availableWallets, autoPc>>
    /\ UNCHANGED <<chainVars, uploadVars, viewVars>>

\* The wallet answers eth_requestAccounts.
AccountsAnswers == {"rejected", "rejected with an object", "none", "granted"}

AccountsAnswered(answer) ==
    /\ connectPc = "eth_requestAccounts"
    /\ IF answer = "rejected" THEN ConnectFailed(UserRejected)
       ELSE IF answer = "rejected with an object" THEN ConnectFailed(RejectedObject)
       ELSE IF answer = "none" THEN ConnectFailed(NoAccounts)
       ELSE /\ connectPc' = "eth_chainId"
            /\ state' = state
    /\ UNCHANGED <<walletChainId, walletChains, txState, writePc, submitted>>
    /\ UNCHANGED <<chainVars, uploadVars, sessionVars, viewVars>>

\* ensureCorrectChain: the wallet answers eth_chainId and the id is compared.
ChainIdAnswered ==
    /\ connectPc = "eth_chainId"
    /\ LET chainIdHex == toHex(walletChainId)
           currentChainId == parseInt(chainIdHex)
       IN  connectPc' = IF currentChainId # PASEO_ASSET_HUB.chainId
                        THEN "wallet_switchEthereumChain"
                        ELSE "getSigner"
    /\ UNCHANGED <<walletChainId, walletChains, state, txState, writePc, submitted>>
    /\ UNCHANGED <<chainVars, uploadVars, sessionVars, viewVars>>

\* ensureCorrectChain: the wallet answers wallet_switchEthereumChain; a network
\* it does not know is error 4902, which leads to wallet_addEthereumChain.
SwitchAnswered(approved) ==
    /\ connectPc = "wallet_switchEthereumChain"
    /\ LET requested == parseInt(PASEO_ASSET_HUB.chainIdHex)
       IN  IF requested \notin walletChains
           THEN /\ connectPc' = "wallet_addEthereumChain"
                /\ UNCHANGED <<walletChainId, state>>
           ELSE IF approved
           THEN /\ walletChainId' = requested
                /\ connectPc' = "getSigner"
                /\ state' = state
           ELSE /\ ConnectFailed(UserRejected)
                /\ walletChainId' = walletChainId
    /\ UNCHANGED <<walletChains, txState, writePc, submitted>>
    /\ UNCHANGED <<chainVars, uploadVars, sessionVars, viewVars>>

\* ensureCorrectChain: the wallet answers wallet_addEthereumChain; a wallet that
\* adds the network goes over to it.
AddAnswered(approved) ==
    /\ connectPc = "wallet_addEthereumChain"
    /\ LET requested == parseInt(PASEO_ASSET_HUB.chainIdHex)
       IN  IF approved
           THEN /\ walletChains' = walletChains \cup {requested}
                /\ walletChainId' = requested
                /\ connectPc' = "getSigner"
                /\ state' = state
           ELSE /\ ConnectFailed(UserRejected)
                /\ UNCHANGED <<walletChainId, walletChains>>
    /\ UNCHANGED <<txState, writePc, submitted>>
    /\ UNCHANGED <<chainVars, uploadVars, sessionVars, viewVars>>

\* connect, after ensureCorrectChain: getSigner answers; the extension's name
\* is saved and the connection is put in the state.
SignerAnswered(ok) ==
    /\ connectPc = "getSigner"
    /\ IF ok
       THEN /\ storage' = Extension
            /\ state' = [wallet |-> Extension, address |-> walletAccount,
                         signer |-> TRUE, isConnecting |-> FALSE,
                         isReconnecting |-> state.isReconnecting, error |-> Null]
            /\ connectPc' = "idle"
       ELSE /\ ConnectFailed(SignerUnavailable)
            /\ storage' = storage
    /\ UNCHANGED <<walletChainId, walletChains, txState, writePc, submitted>>
    /\ UNCHANGED <<walletAccount, afterDisconnect, availableWallets, autoPc>>
    /\ UNCHANGED <<chainVars, uploadVars, viewVars>>

disconnect ==
    /\ storage' = NoItem
    /\ state' = Disconnected
    /\ afterDisconnect' = TRUE
    /\ UNCHANGED <<walletChainId, walletChains, connectPc, txState, writePc, submitted>>
    /\ UNCHANGED <<walletAccount, availableWallets, autoPc>>
    /\ UNCHANGED <<chainVars, uploadVars, viewVars>>

\* ConnectWallet: the Disconnect button is in the connected view.
DisconnectClicked ==
    /\ isConnected
    /\ disconnect

\* connect and disconnect as the context exports them: disconnect can be called
\* while a connect awaits the wallet.
SessionNext ==
    \/ \E chainId \in ChainIds : WalletChainChanged(chainId)
    \/ \E account \in WalletAccounts : WalletAccountChanged(account)
    \/ \E found \in BOOLEAN : Connect(found)
    \/ \E answer \in AccountsAnswers : AccountsAnswered(answer)
    \/ ChainIdAnswered
    \/ \E approved \in BOOLEAN : SwitchAnswered(approved)
    \/ \E approved \in BOOLEAN : AddAnswered(approved)
    \/ \E ok \in BOOLEAN : SignerAnswered(ok)
    \/ disconnect

\* ----------------------------------------------------------- auto-reconnect
\* The dependencies of the auto-reconnect effect (connect changes with
\* availableWallets).
ReconnectDeps == <<availableWallets, state.wallet, state.isConnecting>>

\* The discovery effect: a new array at mount and once more from its timer.
discoverWallets ==
    /\ availableWallets < Discoveries
    /\ availableWallets' = availableWallets + 1
    /\ UNCHANGED <<walletAccount, storage, afterDisconnect, autoPc>>
    /\ UNCHANGED <<chainVars, walletVars, uploadVars, viewVars>>

\* The auto-reconnect effect runs after a render in which a dependency differs
\* from the one of its last run. With a saved wallet and nothing connected or
\* connecting it sets isReconnecting and calls connect, up to connect's first
\* request to the wallet.
AutoReconnect(found) ==
    /\ autoPc.seen # ReconnectDeps
    /\ IF /\ storage # NoItem
          /\ availableWallets > 0
          /\ state.wallet = NoWallet
          /\ ~state.isConnecting
          /\ ~state.isReconnecting
       THEN /\ autoPc.attempts < MaxAttempts
            /\ autoPc' = [seen |-> ReconnectDeps, wrapper |-> TRUE,
                          attempts |-> autoPc.attempts + 1]
            /\ LET prev == [state EXCEPT !.isReconnecting = TRUE]
               IN  IF found
                   THEN /\ state' = [prev EXCEPT !.isConnecting = TRUE, !.error = Null]
                        /\ connectPc' = "eth_requestAccounts"
                   ELSE /\ state' = [prev EXCEPT !.isConnecting = FALSE,
                                                 !.error = ProviderNotFound]
                        /\ connectPc' = "idle"
            /\ afterDisconnect' = FALSE
       ELSE /\ autoPc' = [autoPc EXCEPT !.seen = ReconnectDeps]
            /\ UNCHANGED <<state, connectPc, afterDisconnect>>
    /\ UNCHANGED <<walletChainId, walletChains, txState, writePc, submitted>>
    /\ UNCHANGED <<walletAccount, storage, availableWallets>>
    /\ UNCHANGED <<chainVars, uploadVars, viewVars>>

\* The finally of the effect's wrapper, once the connect it awaits has settled.
ReconnectFinally ==
    /\ autoPc.wrapper
    /\ connectPc = "idle"
    /\ state' = [state EXCEPT !.isReconnecting = FALSE]
    /\ autoPc' = [autoPc EXCEPT !.wrapper = FALSE]
    /\ UNCHANGED <<walletChainId, walletChains, connectPc, txState, writePc, submitted>>
    /\ UNCHANGED <<walletAccount, storage, afterDisconnect, availableWallets>>
    /\ UNCHANGED <<chainVars, uploadVars, viewVars>>

\* The page is loaded again; the key may hold the wallet of an earlier visit.
ReloadInit ==
    /\ Deployed
    /\ walletChains \in {{1}, {PASEO_ASSET_HUB.chainId}, ChainIds}
    /\ walletChainId \in walletChains
    /\ state = Disconnected
    /\ connectPc = "idle"
    /\ txState = initialTxState
    /\ writePc = NoWrite
    /\ submitted = {}
    /\ form = EmptyForm
    /\ uploadPc = NoUpload
    /\ walletAccount \in WalletAccounts
    /\ storage \in {NoItem, Extension}
    /\ afterDisconnect = TRUE
    /\ availableWallets = 0
    /\ autoPc = NoAuto
    /\ issuerPc = NoIssuerQuery
    /\ verifyPc = NoVerify
    /\ hookPc = NoHook

\* The page on its own: the two effects and the wallet's answers, no call from
\* the user.
ReconnectNext ==
    \/ discoverWallets
    \/ \E found \in BOOLEAN : AutoReconnect(found)
    \/ \E answer \in AccountsAnswers : AccountsAnswered(answer)
    \/ ChainIdAnswered
    \/ \E approved \in BOOLEAN : SwitchAnswered(approved)
    \/ \E approved \in BOOLEAN : AddAnswered(approved)
    \/ \E ok \in BOOLEAN : SignerAnswered(ok)
    \/ ReconnectFinally

SpecReconnect == ReloadInit /\ [][ReconnectNext]_vars

\* -------------------------------------------------------------- useIsIssuer
\* The effect of useIsIssuer runs after a render in which the address differs
\* from the one of its last run: without an address isIssuer is set to false,
\* with one the role is asked of the contract.
IsIssuerEffect ==
    /\ issuerPc.seen # state.address
    /\ issuerPc' = IF state.address = NoAddress
                   THEN [issuerPc EXCEPT !.isIssuer = FALSE, !.seen = NoAddress]
                   ELSE [issuerPc EXCEPT !.isLoading = TRUE, !.seen = state.address,
                                         !.queries = @ \cup {state.address}]
    /\ UNCHANGED <<verifyPc, hookPc>>
    /\ UNCHANGED <<chainVars, walletVars, uploadVars, sessionVars>>

\* The contract answers hasRole for an address that was asked about: the answer
\* is put in isIssuer.
RoleAnswered(address) ==
    /\ address \in issuerPc.queries
    /\ stack = <<>>
    /\ issuerPc' = [issuerPc EXCEPT !.isIssuer = hasRole(ISSUER_ROLE, address),
                                    !.isLoading = FALSE,
                                    !.queries = @ \ {address}]
    /\ UNCHANGED <<verifyPc, hookPc>>
    /\ UNCHANGED <<chainVars, walletVars, uploadVars, sessionVars>>

\* The manager page: the wallet is connected and disconnected with the buttons,
\* the user may choose another account in the extension.
IssuerNext ==
    \/ \E account \in WalletAccounts : WalletAccountChanged(account)
    \/ \E found \in BOOLEAN : Connect(found)
    \/ \E answer \in AccountsAnswers : AccountsAnswered(answer)
    \/ ChainIdAnswered
    \/ \E approved \in BOOLEAN : SwitchAnswered(approved)
    \/ \E approved \in BOOLEAN : AddAnswered(approved)
    \/ \E ok \in BOOLEAN : SignerAnswered(ok)
    \/ DisconnectClicked
    \/ IsIssuerEffect
    \/ \E address \in WalletAccounts : RoleAnswered(address)

\* ------------------------------------------------------------ the write hook
\* The catch of the three write functions reports a generic error.
caughtGeneric(err) == TransactionFailed

\* The catch of the three write functions: what is put in txState.error.
caught(err) == IF err.instanceofError THEN err ELSE TransactionFailed

\* registerParticipant, issueCertificate, revokeCertificate of the hook, up to
\* the call of the contract method; the forms' buttons are disabled while a
\* transaction is pending or confirming.
WriteCall(op) ==
    /\ ~txState.isPending /\ ~txState.isConfirming
    /\ writePc.await = "none"
    /\ IF ~state.signer
       THEN /\ txState' = [initialTxState EXCEPT !.error = WalletNotConnected]
            /\ writePc' = [op |-> op, await |-> "none", result |-> "false",
                           raised |-> Null]
       ELSE /\ txState' = [initialTxState EXCEPT !.isPending = TRUE]
            /\ writePc' = [op |-> op, await |-> "send", result |-> "none",
                           raised |-> Null]
    /\ UNCHANGED <<walletChainId, walletChains, state, connectPc, submitted>>
    /\ UNCHANGED <<chainVars, uploadVars, sessionVars, viewVars>>

\* The contract method's promise settles: the wallet has signed and sent the
\* transaction on the network it is on, or the call was rejected.
SendAnswered ==
    /\ writePc.await = "send"
    /\ \/ \E hash \in TxHashes :
             /\ submitted' = submitted \cup
                    {[op |-> writePc.op, chainId |-> walletChainId]}
             /\ txState' = [txState EXCEPT !.isPending = FALSE,
                                           !.isConfirming = TRUE, !.hash = hash]
             /\ writePc' = [writePc EXCEPT !.await = "wait"]
       \/ \E err \in SendErrors :
             /\ submitted' = submitted
             /\ txState' = [initialTxState EXCEPT !.error = caught(err)]
             /\ writePc' = [writePc EXCEPT !.await = "none", !.result = "false",
                                           !.raised = err]
    /\ UNCHANGED <<walletChainId, walletChains, state, connectPc>>
    /\ UNCHANGED <<chainVars, uploadVars, sessionVars, viewVars>>

\* tx.wait() settles.
WaitAnswered ==
    /\ writePc.await = "wait"
    /\ \/ /\ txState' = [txState EXCEPT !.isConfirming = FALSE, !.isSuccess = TRUE]
          /\ writePc' = [writePc EXCEPT !.await = "none", !.result = "true"]
       \/ \E err \in WaitErrors :
             /\ txState' = [initialTxState EXCEPT !.error = caught(err)]
             /\ writePc' = [writePc EXCEPT !.await = "none", !.result = "false",
                                           !.raised = err]
    /\ UNCHANGED <<walletChainId, walletChains, state, connectPc, submitted>>
    /\ UNCHANGED <<chainVars, uploadVars, sessionVars, viewVars>>

\* The forms reset the state some seconds after a success.
resetState ==
    /\ txState.isSuccess
    /\ txState' = initialTxState
    /\ writePc' = NoWrite
    /\ UNCHANGED <<walletChainId, walletChains, state, connectPc, submitted>>
    /\ UNCHANGED <<chainVars, uploadVars, sessionVars, viewVars>>

\* The hook as it is exported: nothing in it keeps a write function from being
\* called while an earlier call awaits the wallet or the confirmation; every
\* call writes the one txState. Call k, up to the call of the contract method.
HookCall(k, op) ==
    /\ hookPc[k].await = "none"
    /\ IF ~state.signer
       THEN /\ txState' = [initialTxState EXCEPT !.error = WalletNotConnected]
            /\ hookPc' = hookPc
       ELSE /\ txState' = [initialTxState EXCEPT !.isPending = TRUE]
            /\ hookPc' = [hookPc EXCEPT ![k] = [op |-> op, await |-> "send"]]
    /\ UNCHANGED <<walletChainId, walletChains, state, connectPc, writePc, submitted>>
    /\ UNCHANGED <<issuerPc, verifyPc>>
    /\ UNCHANGED <<chainVars, uploadVars, sessionVars>>

\* The contract method's promise of call k settles.
HookSendAnswered(k) ==
    /\ hookPc[k].await = "send"
    /\ \/ \E hash \in TxHashes :
             /\ submitted' = submitted \cup
                    {[op |-> hookPc[k].op, chainId |-> walletChainId]}
             /\ txState' = [txState EXCEPT !.isPending = FALSE,
                                           !.isConfirming = TRUE, !.hash = hash]
             /\ hookPc' = [hookPc EXCEPT ![k].await = "wait"]
       \/ \E err \in SendErrors :
             /\ submitted' = submitted
             /\ txState' = [initialTxState EXCEPT !.error = caught(err)]
             /\ hookPc' = [hookPc EXCEPT ![k] = [op |-> "none", await |-> "none"]]
    /\ UNCHANGED <<walletChainId, walletChains, state, connectPc, writePc>>
    /\ UNCHANGED <<issuerPc, verifyPc>>
    /\ UNCHANGED <<chainVars, uploadVars, sessionVars>>

\* tx.wait() of call k settles.
HookWaitAnswered(k) ==
    /\ hookPc[k].await = "wait"
    /\ \/ txState' = [txState EXCEPT !.isConfirming = FALSE, !.isSuccess = TRUE]
       \/ \E err \in WaitErrors :
             txState' = [initialTxState EXCEPT !.error = caught(err)]
    /\ hookPc' = [hookPc EXCEPT ![k] = [op |-> "none", await |-> "none"]]
    /\ UNCHANGED <<walletChainId, walletChains, state, connectPc, writePc, submitted>>
    /\ UNCHANGED <<issuerPc, verifyPc>>
    /\ UNCHANGED <<chainVars, uploadVars, sessionVars>>

\* resetState of the hook, called at any time.
HookResetState ==
    /\ txState' = initialTxState
    /\ UNCHANGED <<walletChainId, walletChains, state, connectPc, writePc, submitted>>
    /\ UNCHANGED <<chainVars, uploadVars, sessionVars, viewVars>>

\* The page is opened with a wallet that is on some network it knows.
WalletInit ==
    /\ Deployed
    /\ walletChains \in {{1}, {PASEO_ASSET_HUB.chainId}, ChainIds}
    /\ walletChainId \in walletChains
    /\ state = Disconnected
    /\ connectPc = "idle"
    /\ txState = initialTxState
    /\ writePc = NoWrite
    /\ submitted = {}
    /\ form = EmptyForm
    /\ uploadPc = NoUpload
    /\ walletAccount = Deployer
    /\ storage = NoItem
    /\ afterDisconnect = TRUE
    /\ availableWallets = 0
    /\ autoPc = NoAuto
    /\ issuerPc = NoIssuerQuery
    /\ verifyPc = NoVerify
    /\ hookPc = NoHook

WalletNext ==
    \/ \E chainId \in ChainIds : WalletChainChanged(chainId)
    \/ \E found \in BOOLEAN : Connect(found)
    \/ \E answer \in AccountsAnswers : AccountsAnswered(answer)
    \/ ChainIdAnswered
    \/ \E approved \in BOOLEAN : SwitchAnswered(approved)
    \/ \E approved \in BOOLEAN : AddAnswered(approved)
    \/ \E ok \in BOOLEAN : SignerAnswered(ok)
    \/ DisconnectClicked
    \/ \E op \in Operations : WriteCall(op)
    \/ SendAnswered
    \/ WaitAnswered
    \/ resetState

SpecWallet == WalletInit /\ [][WalletNext]_vars

SpecSession == WalletInit /\ [][SessionNext]_vars

SpecIssuer == WalletInit /\ [][IssuerNext]_vars

\* A component that calls the write hook as it is exported.
HookNext ==
    \/ \E found \in BOOLEAN : Connect(found)
    \/ \E answer \in AccountsAnswers : AccountsAnswered(answer)
    \/ ChainIdAnswered
    \/ \E approved \in BOOLEAN : SwitchAnswered(approved)
    \/ \E approved \in BOOLEAN : AddAnswered(approved)
    \/ \E ok \in BOOLEAN : SignerAnswered(ok)
    \/ \E k \in CallSlots, op \in Operations : HookCall(k, op)
    \/ \E k \in CallSlots : HookSendAnswered(k)
    \/ \E k \in CallSlots : HookWaitAnswered(k)
    \/ HookResetState

SpecHook == WalletInit /\ [][HookNext]_vars

\* --------------------------------------------------------- the verify view
\* verifyCertificate of useReadCertificate: the contract's answer as an object,
\* null (the empty sequence) when the read fails.
readVerifyCertificate(tokenId, ok) ==
    IF ok
    THEN LET result == verifyCertificate(tokenId)
         IN  <<[isValid |-> result[1], recipient |-> result[2],
                contentHash |-> result[3], cohort |-> result[4],
                issuedAt |-> result[5]]>>
    ELSE <<>>

\* handleVerify up to the read; the button is disabled while a search runs.
handleVerify(tokenId) ==
    /\ ~verifyPc.isLoading
    /\ verifyPc' = [tokenId |-> tokenId, isLoading |-> TRUE, certificate |-> <<>>,
                    error |-> "null"]
    /\ UNCHANGED <<issuerPc, hookPc>>
    /\ UNCHANGED <<chainVars, walletVars, uploadVars, sessionVars>>

\* handleVerify after the read: an object is shown as the certificate, null as
\* an error.
VerifyAnswered(ok) ==
    /\ verifyPc.isLoading
    /\ stack = <<>>
    /\ LET result == readVerifyCertificate(verifyPc.tokenId, ok)
       IN  verifyPc' = IF result # <<>>
                       THEN [verifyPc EXCEPT !.certificate = result,
                                             !.isLoading = FALSE]
                       ELSE [verifyPc EXCEPT !.error = "Certificate not found",
                                             !.isLoading = FALSE]
    /\ UNCHANGED <<issuerPc, hookPc>>
    /\ UNCHANGED <<chainVars, walletVars, uploadVars, sessionVars>>

\* What the view says about the id that was searched.
VerifyHeading ==
    IF verifyPc.certificate # <<>>
    THEN IF verifyPc.certificate[1].isValid THEN "Valid Certificate"
         ELSE "Invalid Certificate (Revoked)"
    ELSE IF verifyPc.error # "null" THEN verifyPc.error
    ELSE ""

VerifyNext ==
    \/ Calls
    \/ \E tokenId \in QueryIds : handleVerify(tokenId)
    \/ \E ok \in BOOLEAN : VerifyAnswered(ok)

SpecVerify == Init /\ [][VerifyNext]_vars

\* ------------------------------------------------------------------- upload
handleFileSelect(file) ==
    /\ form' = [form EXCEPT !.selectedFile = file, !.uploadError = "null"]
    /\ UNCHANGED uploadPc
    /\ UNCHANGED <<chainVars, walletVars, sessionVars, viewVars>>

handlePinataJwtChange(value) ==
    /\ form' = [form EXCEPT !.pinataJwt = value]
    /\ UNCHANGED uploadPc
    /\ UNCHANGED <<chainVars, walletVars, sessionVars, viewVars>>

\* handleUpload, up to the first await of uploadToIPFS: the file is on its way
\* to the store.
handleUpload ==
    /\ form.selectedFile # FileNull
    /\ form.pinataJwt # ""
    /\ ~form.isUploading
    /\ form' = [form EXCEPT !.isUploading = TRUE, !.uploadError = "null"]
    /\ uploadPc' = [NoUpload EXCEPT !.file = form.selectedFile, !.await = "fetch",
                                    !.sent = TRUE]
    /\ UNCHANGED <<chainVars, walletVars, sessionVars, viewVars>>

\* handleUpload's catch and finally.
UploadFailed(message) ==
    /\ form' = [form EXCEPT !.uploadError = message, !.isUploading = FALSE]
    /\ uploadPc' = NoUpload

\* uploadToIPFS: the store answers the POST with the address, or refuses.
FetchAnswered(ok) ==
    /\ uploadPc.await = "fetch"
    /\ IF ok
       THEN /\ uploadPc' = [uploadPc EXCEPT !.await = "digest",
                                            !.cid = IpfsHash(uploadPc.file)]
            /\ form' = form
       ELSE UploadFailed(FailedToUpload)
    /\ UNCHANGED <<chainVars, walletVars, sessionVars, viewVars>>

\* uploadToIPFS: computeSHA256 settles and the result is put in the form.
DigestAnswered(ok) ==
    /\ uploadPc.await = "digest"
    /\ IF ok
       THEN LET result == [uri |-> [scheme |-> "ipfs", cid |-> uploadPc.cid],
                           hash |-> computeSHA256(uploadPc.file),
                           cid |-> uploadPc.cid]
            IN  /\ form' = [form EXCEPT !.tokenURI = result.uri,
                                        !.contentHash = result.hash,
                                        !.selectedFile = FileNull,
                                        !.isUploading = FALSE]
                /\ uploadPc' = [NoUpload EXCEPT !.file = uploadPc.file,
                                                !.cid = result.cid,
                                                !.hash = result.hash]
       ELSE UploadFailed(ReadFailed)
    /\ UNCHANGED <<chainVars, walletVars, sessionVars, viewVars>>

\* handleIssue after a successful issueCertificate: the fields are emptied.
handleIssue ==
    /\ form.tokenURI # NoURI /\ form.contentHash # NoHash
    /\ form' = [form EXCEPT !.tokenURI = NoURI, !.contentHash = NoHash]
    /\ UNCHANGED uploadPc
    /\ UNCHANGED <<chainVars, walletVars, sessionVars, viewVars>>

UploadNext ==
    \/ \E file \in Files : handleFileSelect(file)
    \/ \E value \in PinataJwts : handlePinataJwtChange(value)
    \/ handleUpload
    \/ \E ok \in BOOLEAN : FetchAnswered(ok)
    \/ \E ok \in BOOLEAN : DigestAnswered(ok)
    \/ handleIssue

SpecUpload == Init /\ [][UploadNext]_vars

\* ================================================================== claims
\* t has been issued: it exists and the call that minted it has returned.
Issued(t) == _exists(t) /\ t \notin InFlight

Range(seq) == {seq[i] : i \in DOMAIN seq}

C2_OwnerIsRecipient ==
    [][\A t \in TokenIds :
          /\ Issued(t) => /\ owners[t] = certificates[t].recipient
                          /\ owners[t] = returned[t].recipient
                          /\ certificates'[t].recipient = certificates[t].recipient
                          /\ returned'[t].recipient = returned[t].recipient
          /\ _exists(t) => owners'[t] = owners[t]]_vars

\* Two certificates issued to different recipients, the first one revoked
\* and the issuer role granted on: registry and role calls have run since.
C2_Witness ==
    /\ Issued(1) /\ Issued(2)
    /\ owners[1] # owners[2]
    /\ certificates[1].isRevoked
    /\ hasRole(ISSUER_ROLE, Contract)

\* C3: the k-th issueCertificate call that mints is given id k, the existing
\* ids are exactly 1..counter in every state, and no id is given twice.
C3_DenseTokenIds ==
    /\ Len(allocated) = tokenIdCounter
    /\ \A k \in DOMAIN allocated : allocated[k] = k
    /\ {t \in QueryIds : _exists(t)} = 1..tokenIdCounter

\* The counter has reached 2 with certificate 1 revoked before: the second
\* id was given after a revocation.
C3_Witness ==
    /\ tokenIdCounter = 2
    /\ allocated = <<1, 2>>
    /\ \E i, j \in DOMAIN log :
          /\ i < j
          /\ log[i].type = "CertificateRevoked" /\ log[i].tokenId = 1
          /\ log[j].type = "CertificateIssued" /\ log[j].tokenId = 2

\* C4: once an issued certificate is revoked, it is revoked after every step.
C4_RevocationOneWay ==
    [][\A t \in TokenIds :
          (Issued(t) /\ certificates[t].isRevoked) => certificates'[t].isRevoked]_vars

\* Certificate 1 was revoked and calls have succeeded after that: certificate
\* 2 was issued and revoked too.
C4_Witness ==
    /\ Issued(1) /\ certificates[1].isRevoked
    /\ Issued(2) /\ certificates[2].isRevoked
    /\ log[Len(log)].type = "CertificateRevoked" /\ log[Len(log)].tokenId = 2

\* C5: no call can run in a state in which a token has its owner but not yet
\* its Certificate record and its reverse-index entry.
C5_IssueAllOrNothing ==
    \A t \in TokenIds :
        _exists(t) => /\ certificates[t].recipient = owners[t]
                      /\ t \in Range(participantCertificates[owners[t]])


\* C6: a caller without the issuer role fails registerParticipant,
\* issueCertificate and revokeCertificate with Unauthorized and changes
\* nothing; a caller with the role never fails with Unauthorized, and its
\* registerParticipant succeeds whenever the address is unregistered and the
\* name not empty.  Holding in every state, it holds before a grant, after it
\* and after the role is revoked again.
C6_IssuerRoleGates ==
    /\ [](\A c \in Callers :
             /\ c \notin roles[ISSUER_ROLE] =>
                   /\ \A p \in Addresses, n \in Names :
                         RegisterError(c, p, n) = Unauthorized
                   /\ \A r \in Addresses, u \in TokenURIs, h \in ContentHashes,
                         a \in BOOLEAN : IssueError(c, r, u, h, a) = Unauthorized
                   /\ \A t \in QueryIds : RevokeError(c, t) = Unauthorized
             /\ c \in roles[ISSUER_ROLE] =>
                   /\ \A p \in Addresses, n \in Names :
                         /\ RegisterError(c, p, n) # Unauthorized
                         /\ RegisterError(c, p, n) = Ok
                               <=> (~participants[p].isRegistered /\ n # "")
                   /\ \A r \in Addresses, u \in TokenURIs, h \in ContentHashes,
                         a \in BOOLEAN : IssueError(c, r, u, h, a) # Unauthorized
                   /\ \A t \in QueryIds : RevokeError(c, t) # Unauthorized)
    /\ [][vars' # vars =>
             \A c \in Callers \ roles[ISSUER_ROLE] :
                /\ \A p \in Addresses, n \in Names : ~RegisterParticipant(c, p, n)
                /\ \A r \in Addresses, u \in TokenURIs, h \in ContentHashes,
                      k \in Cohorts, a \in BOOLEAN :
                      ~IssueCertificate(c, r, u, h, k, a)
                /\ \A t \in QueryIds : ~RevokeCertificate(c, t)]_vars

\* Contract was granted the issuer role, used it (the revocation of
\* certificate 1 is logged before its issuance: it was made by the
\* recipient, inside the mint), and has lost the role again.
C6_Witness ==
    /\ ~hasRole(ISSUER_ROLE, Contract)
    /\ stack = <<>>
    /\ \E i, j \in DOMAIN log :
          /\ i < j
          /\ log[i].type = "CertificateRevoked" /\ log[i].tokenId = 1
          /\ log[j].type = "CertificateIssued" /\ log[j].tokenId = 1

\* C7, as stated: every step that changes the role relation is a grantRole
\* or a revokeRole of a caller that holds the admin role.
C7_OnlyAdminChangesRoles ==
    [][roles' # roles =>
          \E c \in Callers, r \in Roles, a \in Addresses :
             /\ hasRole(DEFAULT_ADMIN_ROLE, c)
             /\ GrantRole(c, r, a) \/ RevokeRole(c, r, a)]_vars

\* C7, amended: every step that changes the role relation is a grantRole or
\* a revokeRole of a caller that holds the admin role, or a renounceRole by
\* which a caller gives up a role of its own; a grantRole or revokeRole by a
\* caller without the admin role, and a renounceRole for another account,
\* leave the relation as it was.
C7_RoleChanges ==
    [][roles' # roles =>
          /\ \E c \in Callers, r \in Roles :
                \/ /\ hasRole(DEFAULT_ADMIN_ROLE, c)
                   /\ \E a \in Addresses : GrantRole(c, r, a) \/ RevokeRole(c, r, a)
                \/ /\ hasRole(r, c)
                   /\ RenounceRole(c, r, c)
                   /\ roles' = [roles EXCEPT ![r] = @ \ {c}]
          /\ \A c \in Callers, r \in Roles, a \in Addresses :
                /\ ~hasRole(DEFAULT_ADMIN_ROLE, c) =>
                      ~(GrantRole(c, r, a) \/ RevokeRole(c, r, a))
                /\ a # c => ~RenounceRole(c, r, a)]_vars

\* Contract is inside its token-received callback, where it is the only
\* caller: it has revoked the certificate being minted, which takes the
\* issuer role, and no longer holds the role, which it cannot have revoked
\* (it is no admin) but only renounced.
C7_Witness ==
    /\ stack # <<>>
    /\ ~hasRole(ISSUER_ROLE, Contract)
    /\ ~hasRole(DEFAULT_ADMIN_ROLE, Contract)
    /\ log # <<>>
    /\ log[Len(log)] = CertificateRevoked(stack[Len(stack)].tokenId, now)

\* C8: the owner of every existing token and the recipient of every issued
\* certificate is a registered participant, and a registered participant
\* stays registered.
C8_RecipientRegistered ==
    [][/\ \A t \in TokenIds :
             /\ _exists(t) => participants[owners[t]].isRegistered
             /\ Issued(t) => participants[certificates[t].recipient].isRegistered
       /\ \A a \in Addresses :
             participants[a].isRegistered => participants'[a].isRegistered]_vars

\* Certificates of both registered recipients exist, one of them revoked.
C8_Witness ==
    /\ Issued(1) /\ certificates[1].recipient = Contract /\ certificates[1].isRevoked
    /\ Issued(2) /\ certificates[2].recipient = User
    /\ participants[User].isRegistered /\ participants[Contract].isRegistered

\* C9, as stated: issueCertificate to an unregistered address fails with
\* NotRegistered, whoever calls.
C9_AlwaysNotRegistered ==
    \A c \in Callers, r \in Addresses, u \in TokenURIs, h \in ContentHashes,
       a \in BOOLEAN :
        ~participants[r].isRegistered => IssueError(c, r, u, h, a) = NotRegistered

\* C9, amended: issueCertificate to an unregistered address fails with
\* NotRegistered when the caller holds the issuer role and with Unauthorized
\* when it does not; either way it changes nothing (no certificate, the
\* counter as it was), and every id given is the counter's value plus one.
C9_UnregisteredFails ==
    /\ [](\A c \in Callers, r \in Addresses, u \in TokenURIs, h \in ContentHashes,
             a \in BOOLEAN :
             ~participants[r].isRegistered =>
                /\ hasRole(ISSUER_ROLE, c) => IssueError(c, r, u, h, a) = NotRegistered
                /\ ~hasRole(ISSUER_ROLE, c) => IssueError(c, r, u, h, a) = Unauthorized)
    /\ [][vars' # vars =>
             /\ \A c \in Callers, r \in Addresses, u \in TokenURIs,
                   h \in ContentHashes, k \in Cohorts, a \in BOOLEAN :
                   ~participants[r].isRegistered => ~IssueCertificate(c, r, u, h, k, a)
             /\ allocated' # allocated =>
                   /\ allocated' = Append(allocated, tokenIdCounter + 1)
                   /\ tokenIdCounter' = tokenIdCounter + 1]_vars

\* Two certificates were issued to User while Contract is still
\* unregistered: issuances to Contract could only fail in between.
C9_Witness ==
    /\ ~participants[Contract].isRegistered
    /\ ~participants[ZeroAddress].isRegistered
    /\ tokenIdCounter = 2
    /\ getParticipantCertificates(User) = <<1, 2>>

\* C10: when issueCertificate(r, uri, hash, cohort) returns t,
\* verifyCertificate(t) is (true, r, hash, cohort, issuedAt) with issuedAt the
\* block's timestamp, greater than 0; a revokeCertificate(t) that succeeds
\* turns it into (false, r, hash, cohort, issuedAt); and no other step
\* changes any of the five values of an issued certificate.
C10_VerifyRoundTrip ==
    [][\A t \in TokenIds :
          LET before == verifyCertificate(t)
              after == verifyCertificate(t)'
              call == returned'[t]
              revoked == /\ Len(log') = Len(log) + 1
                         /\ log'[Len(log')] = CertificateRevoked(t, now)
          IN  /\ (~Issued(t) /\ Issued(t)') =>
                    /\ after = <<TRUE, call.recipient, call.contentHash, call.cohort,
                                 call.issuedAt>>
                    /\ call.issuedAt = now /\ call.issuedAt > 0
                    /\ call.recipient # ZeroAddress /\ call.contentHash # ""
              /\ Issued(t) =>
                    /\ before[5] > 0
                    /\ returned'[t] = returned[t]
                    /\ before = <<~certificates[t].isRevoked, call.recipient,
                                  call.contentHash, call.cohort, call.issuedAt>>
                    /\ revoked => after = <<FALSE, before[2], before[3], before[4],
                                            before[5]>>
                    /\ ~revoked => after = before]_vars

\* Certificate 1 was issued to User in the block of timestamp 1 and revoked
\* in the block of timestamp 2, and verifyCertificate(1) still gives the
\* values of the issuance.
C10_Witness ==
    /\ now = 2
    /\ Issued(1)
    /\ verifyCertificate(1) = <<FALSE, User, "sha256:deadbeef", "2024-Q1", 1>>
    /\ log[Len(log)] = CertificateRevoked(1, 2)

\* What verifyCertificate gives for an id without a certificate (line 154).
NotFoundSentinel == <<FALSE, ZeroAddress, "", "", 0>>

\* C11: for every id that was never given out (0, or greater than the
\* counter) verifyCertificate returns the sentinel (false, address(0), "", "",
\* 0); it is a view without a require, so it fails for no caller.
C11_VerifyNeverIssued ==
    \A t \in QueryIds :
        (t = 0 \/ t > tokenIdCounter) => verifyCertificate(t) = NotFoundSentinel

\* Certificate 1 was issued and revoked, id 2 was never given out:
\* verifyCertificate(1) is invalid with its data, verifyCertificate(2) and
\* verifyCertificate(0) are the sentinel.
C11_Witness ==
    /\ tokenIdCounter = 1
    /\ Issued(1) /\ certificates[1].isRevoked
    /\ verifyCertificate(1) # NotFoundSentinel
    /\ verifyCertificate(2) = NotFoundSentinel
    /\ verifyCertificate(0) = NotFoundSentinel

\* The ids of the CertificateIssued events for recipient r, in the order the
\* events were emitted: the order in which the issueCertificate calls for r
\* returned.
IssuedTo(r) ==
    LET isFor(e) == e.type = "CertificateIssued" /\ e.recipient = r
        events == SelectSeq(log, isFor)
    IN  [i \in 1..Len(events) |-> events[i].tokenId]

RegistrationsOf(a) ==
    LET isFor(e) == e.type = "ParticipantRegistered" /\ e.participant = a
    IN  SelectSeq(log, isFor)

\* C14: an address is registered by at most one registerParticipant call; on
\* a registered address the call of an issuer fails with AlreadyRegistered
\* whatever the name; the record of a registered address has isRegistered
\* true and the name and timestamp of that one registration, and no step
\* changes it.
C14_RegisteredOnce ==
    /\ [](\A a \in Addresses :
             LET regs == RegistrationsOf(a)
             IN  /\ Len(regs) <= 1
                 /\ participants[a].isRegistered <=> Len(regs) = 1
                 /\ ~participants[a].isRegistered => participants[a] = NoParticipant
                 /\ participants[a].isRegistered =>
                       /\ participants[a].name = regs[1].name
                       /\ participants[a].name # ""
                       /\ participants[a].registeredAt = regs[1].timestamp
                       /\ \A c \in Callers, n \in Names :
                             hasRole(ISSUER_ROLE, c)
                                => RegisterError(c, a, n) = AlreadyRegistered)
    /\ [][\A a \in Addresses :
             participants[a].isRegistered => participants'[a] = participants[a]]_vars

\* User was registered in the block of timestamp 1 and Contract in the block
\* of timestamp 2, and a certificate was issued and revoked since: User's
\* record still has the timestamp of its registration.
C14_Witness ==
    /\ now = 2
    /\ participants[User] = [name |-> "Alice", registeredAt |-> 1, isRegistered |-> TRUE]
    /\ participants[Contract].registeredAt = 2
    /\ Issued(1) /\ certificates[1].isRevoked

\* The CertificateRevoked events for id t: one per revokeCertificate(t) call
\* that succeeded.
RevocationsOf(t) ==
    LET isFor(e) == e.type = "CertificateRevoked" /\ e.tokenId = t
    IN  SelectSeq(log, isFor)

\* C15: revokeCertificate(t) by an issuer on a revoked certificate fails with
\* AlreadyRevoked, and for each t at most one revokeCertificate(t) call has
\* succeeded: the log holds at most one CertificateRevoked event for t.
C15_AtMostOneRevocation ==
    \A t \in TokenIds :
        /\ (_exists(t) /\ certificates[t].isRevoked) =>
              \A c \in Callers :
                 hasRole(ISSUER_ROLE, c) => RevokeError(c, t) = AlreadyRevoked
        /\ Len(RevocationsOf(t)) <= 1

\* C16: for an id that was never given out, revokeCertificate by an issuer
\* fails with NotFound, there is no certificate record, no revoked flag and
\* no event for the id; and a certificate for which no revocation succeeded
\* since it was given its id is not revoked.
C16_RevokeNeverIssued ==
    /\ \A t \in QueryIds :
          (t = 0 \/ t > tokenIdCounter) =>
             /\ \A c \in Callers :
                   hasRole(ISSUER_ROLE, c) => RevokeError(c, t) = NotFound
             /\ Cert(t) = NoCertificate
             /\ \A i \in DOMAIN log :
                   log[i].type \in {"CertificateIssued", "Locked", "CertificateRevoked"}
                      => log[i].tokenId # t
    /\ \A t \in TokenIds :
          (_exists(t) /\ RevocationsOf(t) = <<>>) => ~certificates[t].isRevoked

\* Certificate 1 was issued and is not revoked, id 2 was never given out and
\* Contract holds the issuer role too: a revokeCertificate(2) or
\* revokeCertificate(0) by either issuer fails with NotFound.
C16_Witness ==
    /\ tokenIdCounter = 1
    /\ Issued(1) /\ ~certificates[1].isRevoked
    /\ hasRole(ISSUER_ROLE, Contract)
    /\ RevokeError(Contract, 2) = NotFound
    /\ RevokeError(Deployer, 0) = NotFound

\* C17: an issueCertificate by an issuer to a registered recipient fails with
\* InvalidArgument when tokenURI is empty ("Token URI cannot be empty") or
\* contentHash is empty ("Content hash cannot be empty") and is no step that
\* changes anything, so it takes no id; the cohort plays no part in the
\* outcome, and every issued certificate stores the cohort of its call, the
\* empty one included, with a tokenURI and a contentHash that are not empty.
C17_EmptyArguments ==
    /\ [](/\ \A c \in Callers, r \in Addresses, u \in TokenURIs,
               h \in ContentHashes, a \in BOOLEAN :
               (hasRole(ISSUER_ROLE, c) /\ participants[r].isRegistered) =>
                  LET err == IssueError(c, r, u, h, a)
                  IN  /\ u = "" => err = InvalidTokenURI
                      /\ (u # "" /\ h = "") => err = InvalidContentHash
                      /\ (u = "" \/ h = "") <=> err \in InvalidArgument
          /\ \A t \in TokenIds :
               Issued(t) => /\ certificates[t].cohort = returned[t].cohort
                            /\ certificates[t].contentHash # ""
                            /\ tokenURIs[t] # "")
    /\ [][vars' # vars =>
             \A c \in Callers, r \in Addresses, u \in TokenURIs, h \in ContentHashes,
                k \in AnyCohorts, a \in BOOLEAN :
                (u = "" \/ h = "") => ~IssueCertificate(c, r, u, h, k, a)]_vars

\* Certificate 1 was issued with the empty cohort and certificate 2 with a
\* cohort: verifyCertificate(1) gives the empty cohort back.
C17_Witness ==
    /\ Issued(1) /\ returned[1].cohort = ""
    /\ verifyCertificate(1)[1] /\ verifyCertificate(1)[4] = ""
    /\ Issued(2) /\ verifyCertificate(2)[4] = "2024-Q1"

\* C18: registerParticipant(a, "") by an issuer, for any address a that is
\* not registered, fails with InvalidArgument ("Name cannot be empty") and is
\* no step that changes anything; a is still unregistered, so that the same
\* issuer's call with a name that is not empty succeeds; and no record and
\* no event ever has an empty name.
C18_EmptyName ==
    /\ [](/\ \A c \in Callers, a \in Addresses :
               (hasRole(ISSUER_ROLE, c) /\ ~participants[a].isRegistered) =>
                  /\ RegisterError(c, a, "") = InvalidName
                  /\ RegisterError(c, a, "") \in InvalidArgument
                  /\ \A n \in Names \ {""} : RegisterError(c, a, n) = Ok
          /\ \A a \in Addresses :
               participants[a].isRegistered => participants[a].name # ""
          /\ \A i \in DOMAIN log :
               log[i].type = "ParticipantRegistered" => log[i].name # "")
    /\ [][vars' # vars =>
             \A c \in Callers, a \in Addresses : ~RegisterParticipant(c, a, "")]_vars

\* User is registered and has a certificate, Contract holds the issuer role
\* and is not registered: registerParticipant(Contract, "") has not
\* registered it, registerParticipant(Contract, "Alice") would.
C18_Witness ==
    /\ participants[User].isRegistered /\ Issued(1)
    /\ ~participants[Contract].isRegistered
    /\ hasRole(ISSUER_ROLE, Contract)
    /\ RegisterError(Contract, Contract, "") = InvalidName
    /\ RegisterError(Contract, Contract, "Alice") = Ok

\* C19: locked(t) fails, with the message for an unknown token id, exactly
\* for the ids that were never given out (0, or greater than the counter),
\* and returns true for every other id in every state, revoked or not; it
\* never returns false.
C19_LockedIffIssued ==
    \A t \in QueryIds :
        /\ (t = 0 \/ t > tokenIdCounter) <=> locked(t) \in UnknownTokenId
        /\ (t = 0 \/ t > tokenIdCounter) => locked(t) = TokenNotFound
        /\ (t >= 1 /\ t <= tokenIdCounter) => locked(t) = "true"
        /\ locked(t) # "false"

\* Contract's certificate 1 was issued and revoked and is still locked;
\* locked(2) fails, id 2 was never given out.
C19_Witness ==
    /\ tokenIdCounter = 1
    /\ Issued(1) /\ owners[1] = Contract /\ certificates[1].isRevoked
    /\ locked(1) = "true"
    /\ locked(2) = TokenNotFound

\* C20: a token that exists exists after every step; the recipient,
\* contentHash, cohort and issuedAt of its record and its tokenURI are left
\* alone once its issuance has returned; its isRevoked flag never goes from
\* true to false, and a step that changes the flag is a revokeCertificate(t).
C20_Lifecycle ==
    [][\A t \in TokenIds :
          _exists(t) =>
             /\ _exists(t)'
             /\ certificates[t].isRevoked => certificates'[t].isRevoked
             /\ certificates'[t].isRevoked # certificates[t].isRevoked =>
                   \E c \in Callers : RevokeCertificate(c, t)
             /\ Issued(t) =>
                   /\ certificates'[t].recipient = certificates[t].recipient
                   /\ certificates'[t].contentHash = certificates[t].contentHash
                   /\ certificates'[t].cohort = certificates[t].cohort
                   /\ certificates'[t].issuedAt = certificates[t].issuedAt
                   /\ tokenURIs'[t] = tokenURIs[t]]_vars

\* C21: a registerParticipant, issueCertificate, revokeCertificate or
\* transfer that fails, for whatever reason, is a step that leaves every
\* variable as it was: no step that changes anything is a call that fails.
C21_FailureLeavesNoTrace ==
    [][vars' # vars =>
          /\ \A c \in Callers, p \in Addresses, n \in Names :
                RegisterError(c, p, n) # Ok => ~RegisterParticipant(c, p, n)
          /\ \A c \in Callers, r \in Addresses, u \in TokenURIs, h \in ContentHashes,
                k \in Cohorts, a \in BOOLEAN :
                IssueError(c, r, u, h, a) # Ok => ~IssueCertificate(c, r, u, h, k, a)
          /\ \A c \in Callers, t \in QueryIds :
                RevokeError(c, t) # Ok => ~RevokeCertificate(c, t)
          /\ \A e \in TransferEntries, c \in Callers, from \in Addresses,
                to \in Addresses, t \in TokenIds :
                TransferError(e, c, from, to, t) # Ok => ~Transfer(e, c, from, to, t)]_vars

\* A state in which each of the seven failures can be had: User is
\* registered and owns certificate 1, which is revoked; Contract is not
\* registered and holds no role; id 2 was not given out.
C21_Witness ==
    /\ Issued(1) /\ tokenIdCounter = 1
    /\ RegisterError(Contract, Contract, "Alice") = Unauthorized
    /\ RegisterError(Deployer, Contract, "") = InvalidName
    /\ RegisterError(Deployer, User, "Alice") = AlreadyRegistered
    /\ IssueError(Deployer, Contract, "ipfs://X", "sha256:deadbeef", TRUE) = NotRegistered
    /\ RevokeError(Deployer, 2) = NotFound
    /\ RevokeError(Deployer, 1) = AlreadyRevoked
    /\ TransferError("transferFrom", User, User, Deployer, 1) = NonTransferable

\* The positions of the Locked events for id t in the log.
LockedAt(t) == {i \in DOMAIN log : log[i].type = "Locked" /\ log[i].tokenId = t}

\* C22: every CertificateIssued event carries the id, recipient, cohort,
\* contentHash and timestamp of an issuance that has returned and is
\* followed at once by the Locked event of the same id; every Locked event
\* follows such a CertificateIssued event; and the log holds exactly one
\* Locked(t) for every issued t and none for any other id, whatever was
\* called since.
C22_IssuedThenLocked ==
    /\ \A i \in DOMAIN log :
          /\ log[i].type = "CertificateIssued" =>
                /\ i + 1 \in DOMAIN log
                /\ log[i + 1].type = "Locked"
                /\ log[i + 1].tokenId = log[i].tokenId
                /\ log[i].tokenId \in TokenIds
                /\ Issued(log[i].tokenId)
                /\ log[i].recipient = returned[log[i].tokenId].recipient
                /\ log[i].cohort = returned[log[i].tokenId].cohort
                /\ log[i].contentHash = returned[log[i].tokenId].contentHash
                /\ log[i].timestamp = returned[log[i].tokenId].issuedAt
          /\ log[i].type = "Locked" =>
                /\ i - 1 \in DOMAIN log
                /\ log[i - 1].type = "CertificateIssued"
                /\ log[i - 1].tokenId = log[i].tokenId
    /\ \A t \in QueryIds :
          Cardinality(LockedAt(t)) = IF t \in TokenIds /\ Issued(t) THEN 1 ELSE 0

\* Certificate 1 went to Contract, which was issued certificate 2 from
\* inside its callback and revoked it; then certificate 1 was revoked: the
\* log ends with the revocation and holds one Locked event for each.
C22_Witness ==
    /\ Issued(1) /\ Issued(2)
    /\ LockedAt(2) # {} /\ LockedAt(1) # {}
    /\ \A i \in LockedAt(2), j \in LockedAt(1) : i < j
    /\ certificates[1].isRevoked /\ certificates[2].isRevoked
    /\ log[Len(log)].type = "CertificateRevoked"

\* C23: between transactions the log holds exactly one ParticipantRegistered
\* event for a registered address and none for another, exactly one
\* CertificateIssued event for an existing id and none for another, and
\* exactly one CertificateRevoked event for a certificate whose flag is set
\* and none for another.
C23_LogStateCoupling ==
    stack = <<>> =>
       /\ \A a \in Addresses :
             Len(RegistrationsOf(a)) = IF participants[a].isRegistered THEN 1 ELSE 0
       /\ \A t \in TokenIds :
             /\ Cardinality({i \in DOMAIN log : /\ log[i].type = "CertificateIssued"
                                                 /\ log[i].tokenId = t})
                   = IF _exists(t) THEN 1 ELSE 0
             /\ Len(RevocationsOf(t)) = IF certificates[t].isRevoked THEN 1 ELSE 0

\* C24: a call of verifyCertificate, getParticipantCertificates, hasRole or
\* locked, by any caller and with any argument, an unknown id or address(0)
\* included, is a step that leaves every variable, the log among them, as it
\* was; the first three return a value for every argument and locked returns
\* true or fails.
C24_ViewsChangeNothing ==
    /\ [](/\ \A t \in QueryIds :
               /\ verifyCertificate(t) \in
                     BOOLEAN \X Addresses \X STRING \X STRING \X Nat
               /\ locked(t) \in {"true", TokenNotFound}
          /\ \A a \in Addresses :
               /\ getParticipantCertificates(a) \in Seq(TokenIds)
               /\ \A r \in Roles : hasRole(r, a) \in BOOLEAN)
    /\ [][vars' # vars =>
             /\ \A c \in Callers, t \in QueryIds :
                   ~VerifyCertificateCall(c, t) /\ ~LockedCall(c, t)
             /\ \A c \in Callers, a \in Addresses :
                   /\ ~GetParticipantCertificatesCall(c, a)
                   /\ \A r \in Roles : ~HasRoleCall(c, r, a)]_vars

\* Contract is inside its callback with certificate 1 not yet recorded and
\* certificate 2, issued to User before, revoked: the views answer there too,
\* locked(1) with true and locked(0) with a failure.
C24_Witness ==
    /\ stack # <<>> /\ stack[1].tokenId = 2
    /\ Issued(1) /\ certificates[1].isRevoked
    /\ locked(2) = "true" /\ locked(0) = TokenNotFound
    /\ getParticipantCertificates(User) = <<1>>

\* C25: what a call does is fixed by the state it runs in, whoever of the
\* issuers makes it and whatever was read before.  On an unregistered
\* address the registerParticipant of every issuer succeeds, and once one has
\* run that of every issuer fails with AlreadyRegistered, in that state and
\* every later one; on an issued certificate that is not revoked the
\* revokeCertificate of every issuer succeeds, and once one has run that of
\* every issuer fails with AlreadyRevoked, from then on; and every issuance
\* takes the id after the one taken last.
C25_Serializable ==
    /\ [](/\ \A a \in Addresses, c \in Callers, n \in Names \ {""} :
               hasRole(ISSUER_ROLE, c) =>
                  RegisterError(c, a, n) = IF participants[a].isRegistered
                                           THEN AlreadyRegistered ELSE Ok
          /\ \A t \in TokenIds, c \in Callers :
               (hasRole(ISSUER_ROLE, c) /\ Issued(t)) =>
                  RevokeError(c, t) = IF certificates[t].isRevoked
                                      THEN AlreadyRevoked ELSE Ok
          /\ \A i \in DOMAIN allocated : allocated[i] = i)
    /\ [][vars' # vars =>
             /\ \A a \in Addresses :
                   participants[a].isRegistered => participants'[a].isRegistered
             /\ \A t \in TokenIds :
                   (Issued(t) /\ certificates[t].isRevoked) =>
                      (Issued(t)' /\ certificates'[t].isRevoked)
             /\ allocated' # allocated =>
                   allocated' = Append(allocated, Len(allocated) + 1)]_vars

\* Two issuers, Deployer and Contract; User is registered and Contract is
\* not; certificates 1 and 2 were issued between transactions, 1 is revoked
\* and 2 is not: a second registration of User and a second revocation of 1
\* fail for both issuers, a registration of Contract and a revocation of 2
\* succeed for both.
C25_Witness ==
    /\ stack = <<>>
    /\ hasRole(ISSUER_ROLE, Contract) /\ hasRole(ISSUER_ROLE, Deployer)
    /\ participants[User].isRegistered /\ ~participants[Contract].isRegistered
    /\ allocated = <<1, 2>>
    /\ certificates[1].isRevoked /\ ~certificates[2].isRevoked
    /\ RevokeError(Contract, 1) = AlreadyRevoked /\ RevokeError(Contract, 2) = Ok

\* C26: every transaction the client hands to the wallet is submitted on the
\* expected network (chain id 420420422), also when the wallet's network is
\* changed after the connection was made.
C26_SubmittedOnExpectedChain ==
    \A tx \in submitted : tx.chainId = PASEO_ASSET_HUB.chainId

\* C27: a call of a write function of the hook puts txState in pending, then
\* in confirming with the transaction's hash once the transaction is
\* submitted, and ends in exactly one of success (the call returns true) and
\* failed (the call returns false and txState.error is the error as it was
\* raised); without a signer it fails at once with 'Wallet not connected' and
\* nothing is submitted.
C27_WriteLifecycle ==
    /\ [](/\ writePc.await = "send" =>
                txState = [initialTxState EXCEPT !.isPending = TRUE]
          /\ writePc.await = "wait" =>
                /\ txState = [initialTxState EXCEPT !.isConfirming = TRUE,
                                                    !.hash = txState.hash]
                /\ txState.hash \in TxHashes
                /\ \E tx \in submitted : tx.op = writePc.op
          /\ writePc.result = "true" =>
                /\ txState = [initialTxState EXCEPT !.isSuccess = TRUE,
                                                    !.hash = txState.hash]
                /\ txState.hash \in TxHashes
          /\ writePc.result = "false" =>
                /\ txState = [initialTxState EXCEPT !.error = txState.error]
                /\ txState.error = IF writePc.raised = Null
                                   THEN WalletNotConnected
                                   ELSE writePc.raised
          /\ (writePc.await = "none" /\ writePc.op # "none") <=>
                writePc.result \in {"true", "false"}
          /\ txState.isSuccess => txState.error = Null)
    /\ [][vars' # vars =>
            \* a call that starts
            /\ (writePc.await = "none" /\ writePc' # writePc /\ writePc' # NoWrite) =>
                  /\ submitted' = submitted
                  /\ IF state.signer
                     THEN writePc'.await = "send" /\ txState'.isPending
                     ELSE /\ writePc'.result = "false"
                          /\ txState'.error = WalletNotConnected
            \* pending, then confirming, then success
            /\ (txState'.isConfirming /\ ~txState.isConfirming) =>
                  txState.isPending /\ submitted' # {}
            /\ (txState'.isSuccess /\ ~txState.isSuccess) =>
                  txState.isConfirming /\ writePc'.result = "true"
            /\ submitted' # submitted =>
                  txState.isPending /\ txState'.isConfirming
            \* a failure comes from a call in flight, or from a call without signer
            /\ (txState'.error # Null /\ txState' # txState) =>
                  /\ writePc'.result = "false"
                  /\ \/ txState.isPending
                     \/ txState.isConfirming
                     \/ ~state.signer]_vars

\* A call was submitted, confirmed and returned true; an earlier transaction
\* is among the submitted ones.
C27_Witness ==
    /\ writePc.result = "true"
    /\ txState.isSuccess /\ txState.hash \in TxHashes /\ txState.error = Null
    /\ [op |-> writePc.op, chainId |-> walletChainId] \in submitted

\* C28: when the selected file is on its way to the store its digest has been
\* computed already, and the tokenURI and contentHash that the upload puts in
\* the issue form are the address and the digest of one and the same file.
C28_DigestBeforeUpload ==
    /\ uploadPc.sent => uploadPc.hash = computeSHA256(uploadPc.file)
    /\ (form.tokenURI # NoURI \/ form.contentHash # NoHash) =>
          \E file \in Files :
             /\ form.tokenURI = [scheme |-> "ipfs", cid |-> IpfsHash(file)]
             /\ form.contentHash = computeSHA256(file)

\* C29: right after deployment the deployer, and no other address, holds the
\* admin role and the issuer role, so that the deployer's registerParticipant
\* and grantRole pass their checks and nobody else's do; the first call that
\* changes anything is such a registration or grant, and it takes effect.
C29_DeployerHoldsBothRoles ==
    /\ [](Deployed =>
             /\ \A r \in Roles : roles[r] = {Deployer}
             /\ \A r \in Roles, a \in Addresses : hasRole(r, a) <=> a = Deployer
             /\ RoleAdminError(Deployer) = Ok
             /\ \A p \in RegisterTargets, n \in Names \ {""} :
                   RegisterError(Deployer, p, n) = Ok
             /\ \A c \in Callers \ {Deployer} :
                   /\ RoleAdminError(c) = Unauthorized
                   /\ \A p \in RegisterTargets, n \in Names :
                         RegisterError(c, p, n) = Unauthorized)
    /\ [][(Deployed /\ vars' # vars) =>
             \/ \E p \in RegisterTargets, n \in Names \ {""} :
                   /\ participants' = [participants EXCEPT ![p] =
                          [name |-> n, registeredAt |-> now, isRegistered |-> TRUE]]
                   /\ log' = <<ParticipantRegistered(p, n, now)>>
                   /\ roles' = roles
             \/ \E ra \in GrantArgs :
                   /\ roles' = [roles EXCEPT ![ra[1]] = @ \cup {ra[2]}]
                   /\ participants' = participants]_vars

\* The deployer's first two calls: User is registered and Contract was granted
\* the issuer role; nothing else has happened.
C29_Witness ==
    /\ log = <<ParticipantRegistered(User, "Alice", 1)>>
    /\ participants[User].isRegistered
    /\ roles[ISSUER_ROLE] = {Deployer, Contract}
    /\ roles[DEFAULT_ADMIN_ROLE] = {Deployer}
    /\ tokenIdCounter = 0

C32_IndexPartitionsIssued ==
    stack = <<>> =>
        /\ \A t \in 1..tokenIdCounter :
              /\ t \in Range(getParticipantCertificates(Cert(t).recipient))
              /\ \A a \in Addresses :
                    t \in Range(getParticipantCertificates(a)) =>
                       a = Cert(t).recipient
        /\ \A a \in Addresses :
              LET ids == getParticipantCertificates(a)
              IN  /\ \A i \in DOMAIN ids : _exists(ids[i])
                  /\ Cardinality(Range(ids)) = Len(ids)
                  /\ \A i, j \in DOMAIN ids : i < j => ids[i] < ids[j]

\* C37, as stated: once no address holds the admin role the role relation
\* never changes again.
C37_RolesFrozen ==
    [][roles[DEFAULT_ADMIN_ROLE] = {} => roles' = roles]_vars

\* C37, amended: once no address holds the admin role, every grantRole and
\* revokeRole fails for every caller and no address is ever added to a role;
\* the only change left is that an issuer gives up its own role. The callers
\* that hold the issuer role pass the checks of registerParticipant,
\* issueCertificate and revokeCertificate as before.
C37_AdminLoss ==
    /\ [](roles[DEFAULT_ADMIN_ROLE] = {} =>
             /\ \A c \in Callers : RoleAdminError(c) = Unauthorized
             /\ \A c \in Callers :
                   hasRole(ISSUER_ROLE, c) =>
                      /\ \A p \in Addresses, n \in Names :
                            (n # "" /\ ~participants[p].isRegistered) =>
                               RegisterError(c, p, n) = Ok
                      /\ \A p \in IssueRecipients, u \in TokenURIs, h \in ContentHashes :
                            (participants[p].isRegistered /\ u # "" /\ h # "") =>
                               IssueError(c, p, u, h, TRUE) = Ok
                      /\ \A t \in TokenIds :
                            (_exists(t) /\ ~Cert(t).isRevoked) =>
                               RevokeError(c, t) = Ok)
    /\ [][(roles[DEFAULT_ADMIN_ROLE] = {} /\ roles' # roles) =>
             /\ roles'[DEFAULT_ADMIN_ROLE] = {}
             /\ \E a \in roles[ISSUER_ROLE] :
                   roles'[ISSUER_ROLE] = roles[ISSUER_ROLE] \ {a}]_vars

\* No admin is left; the deployer is the one issuer that remains, Contract
\* holds a certificate that was issued and revoked.
C37_Witness ==
    /\ roles[DEFAULT_ADMIN_ROLE] = {}
    /\ roles[ISSUER_ROLE] = {Deployer}
    /\ Issued(1) /\ owners[1] = Contract /\ certificates[1].isRevoked

\* C38: a step of connect that ends the call with a failure (the wallet or its
\* provider is not found, the account request is rejected or answers no
\* account, the change or the addition of the network is rejected, getSigner
\* fails) leaves wallet, address and signer as they were, sets error, clears
\* isConnecting and leaves the saved-wallet key alone; the step that ends the call
\* with success sets error to null, puts the extension and the wallet's account
\* in the state and stores the extension's name under the key.
C38_ConnectOutcome ==
    [][/\ (/\ connectPc' = "idle"
           /\ state'.error # Null
           /\ (state' # state \/ connectPc' # connectPc))
          => /\ state'.wallet = state.wallet
             /\ state'.address = state.address
             /\ state'.signer = state.signer
             /\ state'.error.instanceofError
             /\ ~state'.isConnecting
             /\ storage' = storage
       /\ (connectPc = "getSigner" /\ connectPc' = "idle" /\ state'.error = Null)
          => /\ state'.wallet = Extension
             /\ state'.address = walletAccount
             /\ state'.signer
             /\ ~state'.isConnecting
             /\ storage' = Extension]_vars

\* A connection is there and a later connect has failed at getSigner: the
\* connection and the key are the ones there were.
C38_Witness ==
    /\ state.error = SignerUnavailable
    /\ state.signer /\ state.wallet = Extension /\ ~state.isConnecting
    /\ storage = Extension
    /\ connectPc = "idle"

\* C34: as long as connect has not been called again after a disconnect, the
\* state holds no wallet, no address and no signer and the saved-wallet key is
\* absent, also when a connect was awaiting the wallet at the disconnect.
C34_DisconnectIsFinal ==
    afterDisconnect =>
        /\ state.wallet = NoWallet
        /\ state.address = NoAddress
        /\ ~state.signer
        /\ storage = NoItem

\* C35: the page starts at most one automatic connect per wallet discovery:
\* after a failed automatic connect it starts no other one unless the wallets
\* are discovered again (no user action is part of this specification).
C35_OneAttemptPerDiscovery ==
    autoPc.attempts <= availableWallets

\* C36: when no role query is in flight and the effect has run for the current
\* address, isIssuer is false without a connected address and is otherwise the
\* contract's hasRole(ISSUER_ROLE, address) for the connected address.
C36_IsIssuerIsCurrent ==
    (issuerPc.queries = {} /\ issuerPc.seen = state.address) =>
        issuerPc.isIssuer = (/\ state.address # NoAddress
                             /\ hasRole(ISSUER_ROLE, state.address))

\* C33: in every state of the write hook at most one of isPending, isConfirming
\* and isSuccess is true, and error is not null only when the three are false,
\* for the write functions and resetState called in any order, a call started
\* before an earlier one has confirmed included.
C33_OnePhaseAtATime ==
    /\ ~(txState.isPending /\ txState.isConfirming)
    /\ ~(txState.isPending /\ txState.isSuccess)
    /\ ~(txState.isConfirming /\ txState.isSuccess)
    /\ txState.error # Null =>
          (~txState.isPending /\ ~txState.isConfirming /\ ~txState.isSuccess)

\* C31: the verify view says "revoked" only of a certificate that exists: a
\* search the registry answers with the not-found sentinel (zero recipient) ends
\* with "Certificate not found" and is never shown as a revoked certificate.
C31_NotFoundIsNotRevoked ==
    /\ VerifyHeading = "Invalid Certificate (Revoked)" =>
          verifyPc.certificate[1].recipient # ZeroAddress
    /\ (verifyPc.certificate # <<>> /\ verifyPc.certificate[1].recipient = ZeroAddress) =>
          VerifyHeading = "Certificate not found"

====
